---- MODULE Spec2Model ----
(***************************************************************************)
(* Model of the single-sheet denormalisation of src/exporter.py:           *)
(* MenuExcelExporter._export_single_sheet and the row expander             *)
(* MenuExcelExporter._create_item_rows (specification Spec), and of the    *)
(* parallel OCR stage of src/main.py: process_images_parallel and          *)
(* run_tesseract_optimized (specification OcrSpec); of the convert run of  *)
(* src/main.py, convert_menu_to_structured_data on a directory of images   *)
(* (specification ConvertSpec); of the inference adapter of                *)
(* src/llm_converter.py, GeminiConverter.text_to_json_with_gemini          *)
(* (specification LlmSpec); and of the second flattener,                   *)
(* create_complete_menu_sheet of src/create_comprehensive_excel.py, as an  *)
(* operator on the catalogs of Spec.                                       *)
(*                                                                         *)
(* Python values are modelled as follows.  A dict is a function whose      *)
(* domain is the set of keys the dict holds, so that d.get(k, default)     *)
(* distinguishes an absent key from a key holding None.  A list is a       *)
(* sequence.  Scalars (ids, names, prices, codes) are strings, copied      *)
(* opaquely as the code copies them; None is one distinguished string.     *)
(* The dicts a run creates (base_data and the rows) are also kept as       *)
(* objects: heap[a] is the dict at address a, written through whatever     *)
(* reference holds a, and row_refs lists the addresses appended to rows.   *)
(***************************************************************************)
EXTENDS Integers, Sequences, FiniteSets, TLC

VARIABLES
    json_data,          \* the catalog handed to _export_single_sheet
    pc,                 \* position inside _export_single_sheet
    restaurant_name,    \* local of _export_single_sheet (line 106)
    area_id,            \* local (line 110)
    area_display_name,  \* local (line 111)
    category_map,       \* local (line 114)
    addon_group_map,    \* local (line 117)
    rows,               \* local (line 119), the flat row list
    item_index,         \* number of items the loop of line 127 has consumed
    item_rows,          \* the values returned by the calls of line 128, in order
    df,                 \* the DataFrame of line 138
    heap,               \* the dict objects the run has created, by address
    row_refs,           \* the list rows as the addresses of its elements
    image_files,        \* process_images_parallel: the image paths, in order
    output_path,        \* the output directory, or None
    max_workers,        \* the size of the worker pool
    ocr_pc,             \* where the calling thread of the OCR batch is
    futures,            \* the futures submitted so far, in submission order
    yielded,            \* the futures as_completed has handed over, in order
    successful_files,   \* the counters and the list of line 216-218
    failed_files,
    results,
    export_json,        \* convert_menu_to_structured_data: its two flags
    export_excel,
    conv_pc,            \* where the convert run is
    ocr_results,        \* the (filename, text) pairs handed to the loop
    total_files,        \* the counters of lines 396-398
    successful_conversions,
    failed_conversions,
    conv_log,           \* what happened to each OCR result, in loop order
    conv_return,        \* the value the convert run returned
    llm_model,          \* GeminiConverter: whether self.model is set
    raw_text,           \* text_to_json_with_gemini: its two arguments
    source_image_path,
    llm_pc,             \* where the call of text_to_json_with_gemini is
    response,           \* what generate_content gave
    model_calls,        \* the number of generate_content calls made
    llm_return,         \* the triple the call returned
    revalidated         \* _validate_and_enhance_json applied to its own result

exporter_vars == <<json_data, pc, restaurant_name, area_id,
                   area_display_name, category_map, addon_group_map, rows,
                   item_index, item_rows, df, heap, row_refs>>

ocr_vars == <<image_files, output_path, max_workers, ocr_pc, futures,
              yielded, successful_files, failed_files, results>>

convert_vars == <<export_json, export_excel, conv_pc, ocr_results,
                  total_files, successful_conversions, failed_conversions,
                  conv_log, conv_return>>

llm_vars == <<llm_model, raw_text, source_image_path, llm_pc, response,
              model_calls, llm_return, revalidated>>

vars == <<exporter_vars, ocr_vars, convert_vars, llm_vars>>

----------------------------------------------------------------------------
(* Bounds of the explored catalogs. *)

MaxItems == 2

MaxVariations == 2

MaxRefs == 2

MaxAddonItems == 2

(* Bounds of the explored OCR batches. *)

MaxFiles == 3

MaxWorkers == 2

(* Bound of the explored convert runs: the images of the input directory. *)

MaxImages == 2

----------------------------------------------------------------------------
(* Python values. *)

None == "<None>"

NaN == "<NaN>"

EmptyDict == [k \in {} |-> None]

\* d.get(k, default)
Get(d, k, default) == IF k \in DOMAIN d THEN d[k] ELSE default

\* d.get(k)
GetOrNone(d, k) == Get(d, k, None)

\* d.update(e): the keys of e overwrite those of d
Update(d, e) == e @@ d

PutFirstWins(m, k, v) == IF k \in DOMAIN m THEN m ELSE (k :> v) @@ m

\* m[k] = v: one insertion of a dict comprehension, a later entry overwriting
\* an earlier one with the same key
Put(m, k, v) == (k :> v) @@ m

\* {e.get(key): e for e in entries}, entries consumed from position i on
RECURSIVE DictComprehension(_, _, _, _)
DictComprehension(m, entries, key, i) ==
    IF i > Len(entries) THEN m
    ELSE DictComprehension(Put(m, GetOrNone(entries[i], key), entries[i]),
                           entries, key, i + 1)

\* truth value of a list
Truthy(list) == Len(list) > 0

----------------------------------------------------------------------------
(* The canonical column order of the DataFrame. *)

ColumnsSwapped ==
    << "restaurant_name", "area_id", "area_display_name",
       "category_id", "category_name", "category_image_url",
       "category_timings", "category_rank",
       "item_id", "item_name", "item_description", "price", "rank",
       "image_url", "instock",
       "variation_item_id", "variation_id", "variation_name", "variation_price",
       "addon_name", "addon_item_selection", "addon_item_selection_min",
       "addon_item_selection_max", "addon_id", "addon_price",
       "addon_group_id", "addon_group_name" >>

Columns ==
    << "restaurant_name", "area_id", "area_display_name",
       "category_id", "category_name", "category_image_url",
       "category_timings", "category_rank",
       "item_id", "item_name", "item_description", "price", "rank",
       "image_url", "instock",
       "variation_item_id", "variation_id", "variation_name", "variation_price",
       "addon_name", "addon_item_selection", "addon_item_selection_min",
       "addon_item_selection_max", "addon_price", "addon_id",
       "addon_group_id", "addon_group_name" >>

----------------------------------------------------------------------------
(* _create_empty_row_new_schema *)

CreateEmptyRowDropsArea(rname, aid, aname) ==
    [ restaurant_name |-> rname, area_id |-> None, area_display_name |-> None,
      category_id |-> None, category_name |-> None, category_image_url |-> None,
      category_timings |-> None, category_rank |-> None,
      item_id |-> None, item_name |-> None, item_description |-> None,
      price |-> None, rank |-> None, image_url |-> None, instock |-> None,
      variation_item_id |-> None, variation_id |-> None,
      variation_name |-> None, variation_price |-> None,
      addon_name |-> None, addon_item_selection |-> None,
      addon_item_selection_min |-> None, addon_item_selection_max |-> None,
      addon_price |-> None, addon_id |-> None,
      addon_group_id |-> None, addon_group_name |-> None ]

CreateEmptyRowNewSchema(rname, aid, aname) ==
    [ restaurant_name |-> rname, area_id |-> aid, area_display_name |-> aname,
      category_id |-> None, category_name |-> None, category_image_url |-> None,
      category_timings |-> None, category_rank |-> None,
      item_id |-> None, item_name |-> None, item_description |-> None,
      price |-> None, rank |-> None, image_url |-> None, instock |-> None,
      variation_item_id |-> None, variation_id |-> None,
      variation_name |-> None, variation_price |-> None,
      addon_name |-> None, addon_item_selection |-> None,
      addon_item_selection_min |-> None, addon_item_selection_max |-> None,
      addon_price |-> None, addon_id |-> None,
      addon_group_id |-> None, addon_group_name |-> None ]

----------------------------------------------------------------------------
(* _create_item_rows: the dict literals *)

\* lines 212-228
BaseData(item, rname, aid, aname, cmap) ==
    LET category_id   == GetOrNone(item, "item_categoryid")
        category_info == Get(cmap, category_id, EmptyDict)
    IN  [ restaurant_name    |-> rname,
          area_id            |-> aid,
          area_display_name  |-> aname,
          category_id        |-> category_id,
          category_name      |-> Get(category_info, "categoryname", ""),
          category_image_url |-> GetOrNone(category_info, "category_image_url"),
          category_timings   |-> GetOrNone(category_info, "categorytimings"),
          category_rank      |-> GetOrNone(category_info, "categoryrank"),
          item_id            |-> GetOrNone(item, "itemid"),
          item_name          |-> Get(item, "itemname", ""),
          item_description   |-> Get(item, "itemdescription", ""),
          price              |-> GetOrNone(item, "price"),
          rank               |-> GetOrNone(item, "itemrank"),
          image_url          |-> GetOrNone(item, "item_image_url"),
          instock            |-> Get(item, "instock", "2") ]

NoVariationFieldsBlankName ==
    [ variation_item_id |-> None, variation_id |-> None,
      variation_name |-> "", variation_price |-> None ]

\* the four variation keys of a row without a variation (lines 238-241)
NoVariationFields ==
    [ variation_item_id |-> None, variation_id |-> None,
      variation_name |-> None, variation_price |-> None ]

\* the four variation keys of a row of one variation (lines 258-261)
VariationFields(variation) ==
    [ variation_item_id |-> GetOrNone(variation, "variationitemid"),
      variation_id      |-> GetOrNone(variation, "variationid"),
      variation_name    |-> GetOrNone(variation, "variation_name"),
      variation_price   |-> GetOrNone(variation, "variation_price") ]

\* the eight addon keys of a row without an addon (lines 242-249)
NoAddonFields ==
    [ addon_name |-> None, addon_item_selection |-> None,
      addon_item_selection_min |-> None, addon_item_selection_max |-> None,
      addon_price |-> None, addon_id |-> None,
      addon_group_id |-> None, addon_group_name |-> None ]

AddonItemFieldsNoDefault(addon_ref, addon_group_id, addon_group, addon_item) ==
    [ addon_name               |-> GetOrNone(addon_item, "addonitem_name"),
      addon_item_selection     |-> GetOrNone(addon_ref, "addon_item_selection"),
      addon_item_selection_min |-> GetOrNone(addon_ref, "addon_item_selection_min"),
      addon_item_selection_max |-> GetOrNone(addon_ref, "addon_item_selection_max"),
      addon_price              |-> GetOrNone(addon_item, "addonitem_price"),
      addon_id                 |-> GetOrNone(addon_item, "addonitemid"),
      addon_group_id           |-> addon_group_id,
      addon_group_name         |-> Get(addon_group, "addongroup_name", "") ]

\* the eight addon keys of the row of one addon item (lines 288-295)
AddonItemFields(addon_ref, addon_group_id, addon_group, addon_item) ==
    [ addon_name               |-> GetOrNone(addon_item, "addonitem_name"),
      addon_item_selection     |-> GetOrNone(addon_ref, "addon_item_selection"),
      addon_item_selection_min |-> Get(addon_ref, "addon_item_selection_min", "0"),
      addon_item_selection_max |-> Get(addon_ref, "addon_item_selection_max", "2"),
      addon_price              |-> GetOrNone(addon_item, "addonitem_price"),
      addon_id                 |-> GetOrNone(addon_item, "addonitemid"),
      addon_group_id           |-> addon_group_id,
      addon_group_name         |-> Get(addon_group, "addongroup_name", "") ]

EmptyGroupFieldsNoName(addon_ref, addon_group_id, addon_group) ==
    [ addon_name               |-> None,
      addon_item_selection     |-> GetOrNone(addon_ref, "addon_item_selection"),
      addon_item_selection_min |-> Get(addon_ref, "addon_item_selection_min", "0"),
      addon_item_selection_max |-> Get(addon_ref, "addon_item_selection_max", "2"),
      addon_price              |-> None,
      addon_id                 |-> None,
      addon_group_id           |-> addon_group_id,
      addon_group_name         |-> None ]

\* the eight addon keys of the row of an addon ref whose group has no items
\* (lines 306-313)
EmptyGroupFields(addon_ref, addon_group_id, addon_group) ==
    [ addon_name               |-> None,
      addon_item_selection     |-> GetOrNone(addon_ref, "addon_item_selection"),
      addon_item_selection_min |-> Get(addon_ref, "addon_item_selection_min", "0"),
      addon_item_selection_max |-> Get(addon_ref, "addon_item_selection_max", "2"),
      addon_price              |-> None,
      addon_id                 |-> None,
      addon_group_id           |-> addon_group_id,
      addon_group_name         |-> Get(addon_group, "addongroup_name", "") ]

----------------------------------------------------------------------------
(* _create_item_rows: the loops *)

AddonRefRowsDropEmpty(base_data, variation_fields, addon_ref, amap) ==
    LET addon_group_id == GetOrNone(addon_ref, "addon_group_id")
        addon_group    == Get(amap, addon_group_id, EmptyDict)
        addon_items    == Get(addon_group, "addongroupitems", <<>>)
    IN  [ j \in 1..Len(addon_items) |->
            Update(base_data,
                   variation_fields @@
                   AddonItemFields(addon_ref, addon_group_id, addon_group,
                                   addon_items[j])) ]

AddonRefRowsReversed(base_data, variation_fields, addon_ref, amap) ==
    LET addon_group_id == GetOrNone(addon_ref, "addon_group_id")
        addon_group    == Get(amap, addon_group_id, EmptyDict)
        addon_items    == Get(addon_group, "addongroupitems", <<>>)
    IN  IF Truthy(addon_items)
        THEN [ j \in 1..Len(addon_items) |->
                 Update(base_data,
                        variation_fields @@
                        AddonItemFields(addon_ref, addon_group_id, addon_group,
                                        addon_items[Len(addon_items) + 1 - j])) ]
        ELSE << Update(base_data,
                       variation_fields @@
                       EmptyGroupFields(addon_ref, addon_group_id, addon_group)) >>

AddonRefRowsFirstItemOnly(base_data, variation_fields, addon_ref, amap) ==
    LET addon_group_id == GetOrNone(addon_ref, "addon_group_id")
        addon_group    == Get(amap, addon_group_id, EmptyDict)
        addon_items    == Get(addon_group, "addongroupitems", <<>>)
    IN  IF Truthy(addon_items)
        THEN << Update(base_data,
                       variation_fields @@
                       AddonItemFields(addon_ref, addon_group_id, addon_group,
                                       addon_items[1])) >>
        ELSE << Update(base_data,
                       variation_fields @@
                       EmptyGroupFields(addon_ref, addon_group_id, addon_group)) >>

\* The body of the loop over addon refs: the rows appended for one addon ref.
\* Lines 321-360 with the variation of the enclosing loop; lines 276-315 are
\* the same text with the four variation keys set to None.
AddonRefRows(base_data, variation_fields, addon_ref, amap) ==
    LET addon_group_id == GetOrNone(addon_ref, "addon_group_id")
        addon_group    == Get(amap, addon_group_id, EmptyDict)
        addon_items    == Get(addon_group, "addongroupitems", <<>>)
    IN  IF Truthy(addon_items)
        THEN [ j \in 1..Len(addon_items) |->
                 Update(base_data,
                        variation_fields @@
                        AddonItemFields(addon_ref, addon_group_id, addon_group,
                                        addon_items[j])) ]
        ELSE << Update(base_data,
                       variation_fields @@
                       EmptyGroupFields(addon_ref, addon_group_id, addon_group)) >>

\* for addon_ref in addon_refs (lines 275 and 320), from position i on,
\* appending to acc
RECURSIVE AddonRefLoop(_, _, _, _, _, _)
AddonRefLoop(acc, base_data, variation_fields, addon_refs, amap, i) ==
    IF i > Len(addon_refs) THEN acc
    ELSE AddonRefLoop(
             acc \o AddonRefRows(base_data, variation_fields, addon_refs[i], amap),
             base_data, variation_fields, addon_refs, amap, i + 1)

\* the item's name written on the first row only
VariationRowsBlankRepeat(base_data, variations) ==
    [ i \in 1..Len(variations) |->
        Update(IF i = 1 THEN base_data ELSE [ base_data EXCEPT !["item_name"] = "" ],
               VariationFields(variations[i]) @@ NoAddonFields) ]

\* for variation in variations (line 255), no addon refs
VariationRows(base_data, variations) ==
    [ i \in 1..Len(variations) |->
        Update(base_data, VariationFields(variations[i]) @@ NoAddonFields) ]

\* for variation in variations (line 319) around the loop over addon refs
RECURSIVE VariationAddonLoop(_, _, _, _, _, _)
VariationAddonLoop(acc, base_data, variations, addon_refs, amap, i) ==
    IF i > Len(variations) THEN acc
    ELSE VariationAddonLoop(
             AddonRefLoop(acc, base_data, VariationFields(variations[i]),
                          addon_refs, amap, 1),
             base_data, variations, addon_refs, amap, i + 1)

CreateItemRowsNoSimpleCase(item, rname, aid, aname, cmap, amap) ==
    LET base_data  == BaseData(item, rname, aid, aname, cmap)
        variations == Get(item, "variation", <<>>)
        addon_refs == Get(item, "addon", <<>>)
    IN  IF Truthy(variations) /\ ~Truthy(addon_refs)
        THEN VariationRows(base_data, variations)
        ELSE IF ~Truthy(variations) /\ Truthy(addon_refs)
        THEN AddonRefLoop(<<>>, base_data, NoVariationFields, addon_refs, amap, 1)
        ELSE VariationAddonLoop(<<>>, base_data, variations, addon_refs, amap, 1)

\* _create_item_rows (lines 202-362)
CreateItemRows(item, rname, aid, aname, cmap, amap) ==
    LET base_data  == BaseData(item, rname, aid, aname, cmap)
        variations == Get(item, "variation", <<>>)
        addon_refs == Get(item, "addon", <<>>)
    IN  IF ~Truthy(variations) /\ ~Truthy(addon_refs)
        THEN << Update(base_data, NoVariationFields @@ NoAddonFields) >>
        ELSE IF Truthy(variations) /\ ~Truthy(addon_refs)
        THEN VariationRows(base_data, variations)
        ELSE IF ~Truthy(variations) /\ Truthy(addon_refs)
        THEN AddonRefLoop(<<>>, base_data, NoVariationFields, addon_refs, amap, 1)
        ELSE VariationAddonLoop(<<>>, base_data, variations, addon_refs, amap, 1)

----------------------------------------------------------------------------
(* The objects behind the rows. *)

\* a new dict object: the state of the heap and of the list after the
\* allocation, the new object at the end of the heap
NewDict(st, value) ==
    [ heap |-> Append(st.heap, value), refs |-> st.refs ]

\* row = base_data; row.update(fields); rows.append(row)
AppendRowNoCopy(st, base, fields) ==
    [ heap |-> [ st.heap EXCEPT ![base] = Update(@, fields) ],
      refs |-> Append(st.refs, base) ]

\* row = base_data.copy(); row.update(fields); rows.append(row)
\* (lines 236-251 and the five other places a row is appended)
AppendRow(st, base, fields) ==
    [ heap |-> Append(st.heap, Update(st.heap[base], fields)),
      refs |-> Append(st.refs, Len(st.heap) + 1) ]

\* the rows of one call of _create_item_rows appended one after the other,
\* from row i on, each a copy of the base_data object at address base
RECURSIVE AppendRows(_, _, _, _)
AppendRows(st, base, returned, i) ==
    IF i > Len(returned) THEN st
    ELSE AppendRows(AppendRow(st, base, returned[i]), base, returned, i + 1)

\* the objects of one call of _create_item_rows: base_data (line 212), then
\* the rows, which rows.extend (line 128) adds to the list
ItemRowObjects(st, base_data, returned) ==
    AppendRows(NewDict(st, base_data), Len(st.heap) + 1, returned, 1)

----------------------------------------------------------------------------
(* pandas.DataFrame(rows, columns=[...]): every row projected on the columns, *)
(* in the order of the columns; a key the row lacks reads NaN.                *)

DataFrame(data, columns) ==
    [ columns |-> columns,
      values  |-> [ i \in 1..Len(data) |->
                      [ j \in 1..Len(columns) |-> Get(data[i], columns[j], NaN) ] ] ]

----------------------------------------------------------------------------
(* The catalogs explored. *)

Area1 == [ areaid |-> "AR1", displayname |-> "Main Hall" ]

Area2 == [ areaid |-> "AR2", displayname |-> "Patio" ]

\* the restaurant and the areas of a catalog: a restaurant without a name and
\* no area, a named restaurant with one area, a named restaurant with two
ContextChoices ==
    { [ restaurant |-> [ address |-> "1 Main St" ], areas |-> <<>> ],
      [ restaurant |-> [ restaurantname |-> "Test", address |-> "1 Main St" ],
        areas |-> <<Area1>> ],
      [ restaurant |-> [ restaurantname |-> "Test" ], areas |-> <<Area2, Area1>> ] }

Cat1 == [ categoryid |-> "C1", categoryname |-> "Pizza",
          category_image_url |-> "pizza.png", categorytimings |-> "10-22",
          categoryrank |-> "1" ]

Cat1b == [ categoryid |-> "C1", categoryname |-> "Pasta", categoryrank |-> "2" ]

Cat2 == [ categoryid |-> "C2", categoryname |-> "Drinks", categoryrank |-> "3" ]

\* a category without an id
CatNull == [ categoryname |-> "Orphans", categorytimings |-> "all day",
             categoryrank |-> "9" ]

CategoryChoices == { <<>>, <<Cat1, Cat1b>>, <<CatNull, Cat2>> }

AddonItemPool ==
    << [ addonitemid |-> "A1", addonitem_name |-> "Cheese", addonitem_price |-> "20" ],
       [ addonitemid |-> "A2", addonitem_name |-> "Olives", addonitem_price |-> "15" ],
       [ addonitem_name |-> "Corn" ] >>

\* the first n addon items of the pool, the pool repeated as needed
AddonItems(n) ==
    [ i \in 1..n |-> AddonItemPool[((i - 1) % Len(AddonItemPool)) + 1] ]

GroupG1 == [ addongroupid |-> "G1", addongroup_name |-> "Toppings",
             addongroupitems |-> AddonItems(MaxAddonItems) ]

GroupG1Old == [ addongroupid |-> "G1", addongroup_name |-> "Old Toppings",
                addongroupitems |-> AddonItems(1) ]

\* a group that exists and has no items
GroupG2Empty == [ addongroupid |-> "G2", addongroup_name |-> "Sauces",
                  addongroupitems |-> <<>> ]

\* a group without a name and without an item list
GroupG2Bare == [ addongroupid |-> "G2" ]

\* a group without an id
GroupNull == [ addongroup_name |-> "Ghost", addongroupitems |-> AddonItems(1) ]

GroupChoices ==
    { <<>>, <<GroupG1, GroupG2Empty>>, <<GroupG1Old, GroupG1>>,
      <<GroupNull, GroupG2Bare>> }

VariationPool ==
    << [ variationitemid |-> "VI1", variationid |-> "V1",
         variation_name |-> "Regular", variation_price |-> "100" ],
       [ variationid |-> "V2", variation_name |-> "Large" ],
       [ variationitemid |-> "VI3", variationid |-> "V3",
         variation_name |-> "Family", variation_price |-> "250" ] >>

Variations(n) ==
    [ i \in 1..n |-> VariationPool[((i - 1) % Len(VariationPool)) + 1] ]

VariationChoices == { Variations(n) : n \in 0..MaxVariations }

\* an addon ref without a selection maximum
RefG1 == [ addon_group_id |-> "G1", addon_item_selection |-> "M",
           addon_item_selection_min |-> "1" ]

\* an addon ref without selection bounds
RefG2 == [ addon_group_id |-> "G2", addon_item_selection |-> "S" ]

\* an addon ref without a group id
RefNull == [ addon_item_selection |-> "S",
             addon_item_selection_min |-> "0", addon_item_selection_max |-> "1" ]

RefPool == { RefG1, RefG2, RefNull }

\* the lists of at most MaxRefs distinct addon refs, in every order
RefChoices ==
    UNION { { rs \in [1..n -> RefPool] :
                \A i, j \in 1..n : i # j => rs[i] # rs[j] } : n \in 0..MaxRefs }

\* an item carrying every field
FullHead == [ itemid |-> "I1", itemname |-> "Margherita",
              itemdescription |-> "Tomato and cheese", price |-> "200",
              itemrank |-> "1", item_image_url |-> "m.png", instock |-> "1",
              item_categoryid |-> "C1" ]

\* an item carrying a name only: no id, no category reference, no stock code
BareHead == [ itemname |-> "Plain" ]

\* the items under study: FullHead always carries both lists, BareHead
\* carries a list only when it is not empty
FocusItems ==
    { [ variation |-> vs, addon |-> rs ] @@ FullHead :
        vs \in VariationChoices, rs \in RefChoices }
    \cup
    { (IF vs = <<>> THEN EmptyDict ELSE [ variation |-> vs ]) @@
      (IF rs = <<>> THEN EmptyDict ELSE [ addon |-> rs ]) @@ BareHead :
        vs \in VariationChoices, rs \in RefChoices }

\* the items that precede the item under study: the item under study is the
\* only item of the catalog or its last one, after MaxItems - 1 others
CompanionPool ==
    << [ itemid |-> "I8", itemname |-> "Combo", item_categoryid |-> "C1",
         price |-> "300", variation |-> Variations(2), addon |-> <<RefG1>> ],
       [ itemid |-> "I9", itemname |-> "Water", item_categoryid |-> "C2",
         price |-> "10", variation |-> <<>>, addon |-> <<>> ] >>

Companions(n) ==
    [ i \in 1..n |-> CompanionPool[((i - 1) % Len(CompanionPool)) + 1] ]

ItemChoices ==
    { <<>> } \cup
    { Companions(n) \o <<f>> : n \in {0, MaxItems - 1}, f \in FocusItems }

Catalogs ==
    { [ restaurant |-> x.restaurant, areas |-> x.areas, categories |-> c,
        items |-> it, addongroups |-> g ] :
        x \in ContextChoices, c \in CategoryChoices,
        it \in ItemChoices, g \in GroupChoices }
    \cup
    \* a catalog without an item list
    { [ restaurant |-> x.restaurant, areas |-> x.areas, categories |-> c,
        addongroups |-> g ] :
        x \in ContextChoices, c \in CategoryChoices, g \in GroupChoices }

----------------------------------------------------------------------------
(* _export_single_sheet *)

\* items = json_data.get("items", [])  (line 120)
Items == Get(json_data, "items", <<>>)

\* the converter before text_to_json_with_gemini is called
LlmNotCalled ==
    /\ llm_model = FALSE
    /\ raw_text = ""
    /\ source_image_path = None
    /\ llm_pc = "idle"
    /\ response = None
    /\ model_calls = 0
    /\ llm_return = None
    /\ revalidated = None

\* the convert run before convert_menu_to_structured_data is called
ConvertNotCalled ==
    /\ export_json = TRUE
    /\ export_excel = TRUE
    /\ conv_pc = "idle"
    /\ ocr_results = <<>>
    /\ total_files = 0
    /\ successful_conversions = 0
    /\ failed_conversions = 0
    /\ conv_log = <<>>
    /\ conv_return = None

\* the OCR batch before process_images_parallel is called
OcrNotCalled ==
    /\ image_files = <<>>
    /\ output_path = None
    /\ max_workers = 1
    /\ ocr_pc = "idle"
    /\ futures = <<>>
    /\ yielded = <<>>
    /\ successful_files = 0
    /\ failed_files = 0
    /\ results = <<>>

Init ==
    /\ json_data \in Catalogs
    /\ pc = "entry"
    /\ restaurant_name = None
    /\ area_id = None
    /\ area_display_name = None
    /\ category_map = EmptyDict
    /\ addon_group_map = EmptyDict
    /\ rows = <<>>
    /\ item_index = 0
    /\ item_rows = <<>>
    /\ df = None
    /\ heap = <<>>
    /\ row_refs = <<>>
    /\ OcrNotCalled
    /\ ConvertNotCalled
    /\ LlmNotCalled

SetupLastArea ==
    /\ pc = "entry"
    /\ LET restaurant_data == Get(json_data, "restaurant", EmptyDict)
           areas           == Get(json_data, "areas", <<>>)
       IN  /\ restaurant_name' = Get(restaurant_data, "restaurantname", "Unknown")
           /\ area_id' = IF Truthy(areas) THEN GetOrNone(areas[Len(areas)], "areaid")
                         ELSE None
           /\ area_display_name' =
                 IF Truthy(areas) THEN GetOrNone(areas[Len(areas)], "displayname")
                 ELSE None
    /\ category_map' =
          DictComprehension(EmptyDict, Get(json_data, "categories", <<>>),
                            "categoryid", 1)
    /\ addon_group_map' =
          DictComprehension(EmptyDict, Get(json_data, "addongroups", <<>>),
                            "addongroupid", 1)
    /\ rows' = <<>>
    /\ pc' = "items"
    /\ UNCHANGED <<json_data, item_index, item_rows, df, heap, row_refs,
                   ocr_vars, convert_vars, llm_vars>>

\* lines 105-120: the catalog-wide context and the two lookups
Setup ==
    /\ pc = "entry"
    /\ LET restaurant_data == Get(json_data, "restaurant", EmptyDict)
           areas           == Get(json_data, "areas", <<>>)
       IN  /\ restaurant_name' = Get(restaurant_data, "restaurantname", "Unknown")
           /\ area_id' = IF Truthy(areas) THEN GetOrNone(areas[1], "areaid") ELSE None
           /\ area_display_name' =
                 IF Truthy(areas) THEN GetOrNone(areas[1], "displayname") ELSE None
    /\ category_map' =
          DictComprehension(EmptyDict, Get(json_data, "categories", <<>>),
                            "categoryid", 1)
    /\ addon_group_map' =
          DictComprehension(EmptyDict, Get(json_data, "addongroups", <<>>),
                            "addongroupid", 1)
    /\ rows' = <<>>
    /\ pc' = "items"
    /\ UNCHANGED <<json_data, item_index, item_rows, df, heap, row_refs,
                   ocr_vars, convert_vars, llm_vars>>

\* lines 122-124: no items, one row of restaurant info
EmptyCatalog ==
    /\ pc = "items"
    /\ ~Truthy(Items)
    /\ rows' = Append(rows, CreateEmptyRowNewSchema(restaurant_name, area_id,
                                                    area_display_name))
    /\ LET st == NewDict([ heap |-> heap, refs |-> row_refs ],
                         CreateEmptyRowNewSchema(restaurant_name, area_id,
                                                 area_display_name))
       IN  /\ heap' = st.heap
           /\ row_refs' = Append(row_refs, Len(st.heap))
    /\ pc' = "frame"
    /\ UNCHANGED <<json_data, restaurant_name, area_id, area_display_name,
                   category_map, addon_group_map, item_index, item_rows, df,
                   ocr_vars, convert_vars, llm_vars>>

ItemStepOverwrite ==
    /\ pc = "items"
    /\ Truthy(Items)
    /\ item_index < Len(Items)
    /\ LET returned == CreateItemRows(Items[item_index + 1], restaurant_name,
                                      area_id, area_display_name,
                                      category_map, addon_group_map)
       IN  /\ rows' = returned
           /\ item_rows' = Append(item_rows, returned)
           /\ LET st == ItemRowObjects(
                            [ heap |-> heap, refs |-> row_refs ],
                            BaseData(Items[item_index + 1], restaurant_name,
                                     area_id, area_display_name, category_map),
                            returned)
              IN  /\ heap' = st.heap
                  /\ row_refs' = st.refs
    /\ item_index' = item_index + 1
    /\ pc' = IF item_index + 1 = Len(Items) THEN "frame" ELSE "items"
    /\ UNCHANGED <<json_data, restaurant_name, area_id, area_display_name,
                   category_map, addon_group_map, df,
                   ocr_vars, convert_vars, llm_vars>>

\* lines 127-135: one iteration of the loop over the items
ItemStep ==
    /\ pc = "items"
    /\ Truthy(Items)
    /\ item_index < Len(Items)
    /\ LET returned == CreateItemRows(Items[item_index + 1], restaurant_name,
                                      area_id, area_display_name,
                                      category_map, addon_group_map)
       IN  /\ rows' = rows \o returned
           /\ item_rows' = Append(item_rows, returned)
           /\ LET st == ItemRowObjects(
                            [ heap |-> heap, refs |-> row_refs ],
                            BaseData(Items[item_index + 1], restaurant_name,
                                     area_id, area_display_name, category_map),
                            returned)
              IN  /\ heap' = st.heap
                  /\ row_refs' = st.refs
    /\ item_index' = item_index + 1
    /\ pc' = IF item_index + 1 = Len(Items) THEN "frame" ELSE "items"
    /\ UNCHANGED <<json_data, restaurant_name, area_id, area_display_name,
                   category_map, addon_group_map, df,
                   ocr_vars, convert_vars, llm_vars>>

\* lines 138-166: the rows laid out on the canonical columns
BuildDataFrame ==
    /\ pc = "frame"
    /\ df' = DataFrame(rows, Columns)
    /\ pc' = "done"
    /\ UNCHANGED <<json_data, restaurant_name, area_id, area_display_name,
                   category_map, addon_group_map, rows, item_index, item_rows,
                   heap, row_refs,
                   ocr_vars, convert_vars, llm_vars>>

Next == Setup \/ EmptyCatalog \/ ItemStep \/ BuildDataFrame

Spec == Init /\ [][Next]_vars

----------------------------------------------------------------------------
(* The parallel OCR stage: process_images_parallel and the function its     *)
(* workers run, run_tesseract_optimized (main.py).  A future is a record:   *)
(* the image path it was submitted for, its state (pending in the work      *)
(* queue, running on a worker, finished), the kind of tesseract process the *)
(* worker got, how subprocess.run ended, what reading the output file gave, *)
(* and the result the future holds.  The duration of the timeout is not     *)
(* modelled: a process either exits on its own or hangs, and subprocess.run *)
(* on a hung process ends by raising TimeoutExpired.                        *)

\* the name of the i-th image file (image_path.name, line 84)
FileName(i) == "img" \o ToString(i) \o ".png"

Min(a, b) == IF a < b THEN a ELSE b

\* min(8, os.cpu_count() or 4)  (line 214); 0 stands for a cpu_count of None
DefaultWorkers(cpu_count) == Min(8, IF cpu_count = 0 THEN 4 ELSE cpu_count)

\* the cpu counts explored: unknown, one core, more cores than the cap
CpuCounts == {0, 1, 16}

\* the tesseract processes a worker can get: one that exits, one that never
\* exits on its own, one that cannot be started (subprocess.run raises
\* OSError)
Processes == {"exits", "hangs", "cannot_start"}

\* what open(...).read() of the output file gives (lines 101-109): text, an
\* empty file, or an exception
Reads == {"Idli 40", "", "unreadable"}

\* subprocess.run(..., timeout=30) without the timeout
SubprocessRunNoTimeout(process) ==
    CASE process = "exits"        -> {"returncode_zero", "returncode_nonzero"}
      [] process = "hangs"        -> {}
      [] process = "cannot_start" -> {"OSError"}

\* the ways subprocess.run(..., timeout=30) ends  (lines 93-98, 119-124)
SubprocessRun(process) ==
    CASE process = "exits"        -> {"returncode_zero", "returncode_nonzero"}
      [] process = "hangs"        -> {"TimeoutExpired"}
      [] process = "cannot_start" -> {"OSError"}

\* the value of a future: the returned triple, or the exception that left
\* the function; temp_dir tells what became of the directory of line 90
Returned(success, text, filename, temp_dir) ==
    [ raised |-> FALSE, success |-> success, text |-> text,
      filename |-> filename, temp_dir |-> temp_dir ]

\* run_tesseract_optimized(image_path, output_path)  (lines 76-139), given
\* how subprocess.run ended and what reading the output file gave
RunTesseractOptimized(filename, out, way, read) ==
    IF out = None
    THEN CASE way = "returncode_zero" ->
                  IF read = "unreadable"
                  THEN Returned(FALSE, None, filename, "removed")
                  ELSE Returned(TRUE, read, filename, "removed")
           [] way = "returncode_nonzero" ->
                  Returned(FALSE, None, filename, "removed")
           [] way = "TimeoutExpired" ->
                  Returned(FALSE, None, filename, "left")
           [] way = "OSError" ->
                  Returned(FALSE, None, filename, "left")
    ELSE CASE way = "returncode_zero" ->
                  Returned(TRUE, None, filename, "none")
           [] OTHER ->
                  Returned(FALSE, None, filename, "none")

\* truth value of a string or None  (if text:, line 238)
TruthyText(text) == text # None /\ text # ""

\* the body of the as_completed loop without the else branch
CountResultDropsFailures(counts, result) ==
    IF result.raised
    THEN [ counts EXCEPT !.failed_files = @ + 1 ]
    ELSE IF result.success
         THEN [ counts EXCEPT
                  !.successful_files = @ + 1,
                  !.results = IF TruthyText(result.text)
                              THEN Append(@, <<result.filename, result.text>>)
                              ELSE @ ]
         ELSE counts

\* the body of the as_completed loop  (lines 233-244): the counters and the
\* list after one future's result
CountResult(counts, result) ==
    IF result.raised
    THEN [ counts EXCEPT !.failed_files = @ + 1 ]
    ELSE IF result.success
         THEN [ counts EXCEPT
                  !.successful_files = @ + 1,
                  !.results = IF TruthyText(result.text)
                              THEN Append(@, <<result.filename, result.text>>)
                              ELSE @ ]
         ELSE [ counts EXCEPT !.failed_files = @ + 1 ]

Running == { i \in 1..Len(futures) : futures[i].state = "running" }

Pending == { i \in 1..Len(futures) : futures[i].state = "pending" }

Finished == { i \in 1..Len(futures) : futures[i].state = "finished" }

Yielded == { yielded[k] : k \in 1..Len(yielded) }

\* the call: the arguments, the pool size of lines 212-214, the counters of
\* lines 216-218; the callers pass at least one image (lines 299, 471)
OcrInit ==
    /\ \E n \in 1..MaxFiles : image_files = [ i \in 1..n |-> FileName(i) ]
    /\ output_path \in {None, "out"}
    /\ \/ max_workers \in 1..MaxWorkers
       \/ \E cpu_count \in CpuCounts : max_workers = DefaultWorkers(cpu_count)
    /\ ocr_pc = "submit"
    /\ futures = <<>>
    /\ yielded = <<>>
    /\ successful_files = 0
    /\ failed_files = 0
    /\ results = <<>>
    /\ ConvertNotCalled
    /\ LlmNotCalled
    /\ json_data = EmptyDict
    /\ pc = "entry"
    /\ restaurant_name = None
    /\ area_id = None
    /\ area_display_name = None
    /\ category_map = EmptyDict
    /\ addon_group_map = EmptyDict
    /\ rows = <<>>
    /\ item_index = 0
    /\ item_rows = <<>>
    /\ df = None
    /\ heap = <<>>
    /\ row_refs = <<>>

\* executor.submit for the next image of the comprehension  (lines 226-229)
Submit ==
    /\ ocr_pc = "submit"
    /\ Len(futures) < Len(image_files)
    /\ futures' = Append(futures,
                         [ image_path |-> image_files[Len(futures) + 1],
                           state |-> "pending", process |-> None,
                           way |-> None, read |-> None, result |-> None ])
    /\ UNCHANGED <<image_files, output_path, max_workers, ocr_pc, yielded,
                   successful_files, failed_files, results, exporter_vars,
                   convert_vars, llm_vars>>

\* the comprehension is over: the calling thread enters the loop of line 232
AllSubmitted ==
    /\ ocr_pc = "submit"
    /\ Len(futures) = Len(image_files)
    /\ ocr_pc' = "collect"
    /\ UNCHANGED <<image_files, output_path, max_workers, futures, yielded,
                   successful_files, failed_files, results, exporter_vars,
                   convert_vars, llm_vars>>

\* a free worker of the pool takes the oldest work item of the queue and
\* calls subprocess.run
StartTask ==
    /\ Pending # {}
    /\ Cardinality(Running) < max_workers
    /\ LET i == CHOOSE p \in Pending : \A q \in Pending : p <= q
       IN  \E process \in Processes :
               futures' = [ futures EXCEPT ![i].state = "running",
                                           ![i].process = process ]
    /\ UNCHANGED <<image_files, output_path, max_workers, ocr_pc, yielded,
                   successful_files, failed_files, results, exporter_vars,
                   convert_vars, llm_vars>>

\* subprocess.run of one worker ends and run_tesseract_optimized returns:
\* the future holds its result; reads is what the output file can hold
FinishTaskReading(reads) ==
    \E i \in Running :
        /\ \E way \in SubprocessRun(futures[i].process) :
           \E read \in IF way = "returncode_zero" /\ output_path = None
                       THEN reads ELSE {None} :
               futures' = [ futures EXCEPT
                              ![i].state = "finished",
                              ![i].way = way,
                              ![i].read = read,
                              ![i].result =
                                  RunTesseractOptimized(futures[i].image_path,
                                                        output_path, way, read) ]
        /\ UNCHANGED <<image_files, output_path, max_workers, ocr_pc, yielded,
                       successful_files, failed_files, results, exporter_vars,
                       convert_vars, llm_vars>>

FinishTask == FinishTaskReading(Reads)

\* as_completed hands over a finished future it has not handed over yet, and
\* the loop body counts its result  (lines 232-244)
Collect ==
    /\ ocr_pc = "collect"
    /\ \E i \in Finished \ Yielded :
         LET counts == CountResult(
                           [ successful_files |-> successful_files,
                             failed_files |-> failed_files,
                             results |-> results ],
                           futures[i].result)
         IN  /\ yielded' = Append(yielded, i)
             /\ successful_files' = counts.successful_files
             /\ failed_files' = counts.failed_files
             /\ results' = counts.results
    /\ UNCHANGED <<image_files, output_path, max_workers, ocr_pc, futures,
                   exporter_vars,
                   convert_vars, llm_vars>>

\* as_completed is exhausted, the executor shuts down, the function returns
\* the counters and the list  (lines 254-260)
Return ==
    /\ ocr_pc = "collect"
    /\ Len(yielded) = Len(futures)
    /\ ocr_pc' = "returned"
    /\ UNCHANGED <<image_files, output_path, max_workers, futures, yielded,
                   successful_files, failed_files, results, exporter_vars,
                   convert_vars, llm_vars>>

OcrNext == Submit \/ AllSubmitted \/ StartTask \/ FinishTask \/ Collect \/ Return

\* the threads keep being scheduled, and subprocess.run ends: while a step
\* of the batch is possible, one is eventually taken
OcrSpec == OcrInit /\ [][OcrNext]_vars /\ WF_vars(OcrNext)

----------------------------------------------------------------------------
(* The convert run on a directory: convert_menu_to_structured_data          *)
(* (main.py), with process_directory_for_conversion, the OCR batch above,   *)
(* the inference call text_to_json_with_gemini and export_menu_to_excel     *)
(* (exporter.py).  The inference and the two file writers are the           *)
(* environment: the loop sees only how each call ends.  conv_log keeps, for *)
(* every OCR result the loop has taken up, how its inference and its export *)
(* ended, which files were written and how the result was counted.          *)

\* what the output file of tesseract can hold in a convert run: text,
\* nothing, blanks only, or it cannot be read
ConvertReads == {"Idli 40", "", "  ", "unreadable"}

\* text.strip()  (line 495) on the texts above
Strip(text) == IF text = "  " THEN "" ELSE text

\* the loop of lines 485-496: the results whose text is not blank, in the
\* order of results, from result k on (every name is the name of an image)
RECURSIVE OcrResultsFrom(_, _)
OcrResultsFrom(res, k) ==
    IF k > Len(res) THEN <<>>
    ELSE IF TruthyText(Strip(res[k][2]))
         THEN <<res[k]>> \o OcrResultsFrom(res, k + 1)
         ELSE OcrResultsFrom(res, k + 1)

\* process_directory_for_conversion after process_images_parallel returned
\* (lines 480-498)
OcrResults(successful, res) ==
    IF successful = 0 THEN <<>> ELSE OcrResultsFrom(res, 1)

\* MenuExcelExporter.json_to_excel  (exporter.py 51-86): True when the
\* workbook was written, False when anything in the writing raised
JsonToExcel(excel_sink) ==
    [ raised |-> FALSE, returned |-> (excel_sink = "ok"),
      excel_file |-> (excel_sink = "ok") ]

\* export_menu_to_excel that goes on to the JSON file after a failed workbook
ExportMenuToExcelNoRaise(include_json, excel_sink, json_sink) ==
    LET excel == JsonToExcel(excel_sink)
    IN  [ raised |-> FALSE,
          excel_file |-> excel.excel_file,
          json_file |-> (include_json /\ json_sink = "ok") ]

\* export_menu_to_excel  (exporter.py 648-690): the workbook is written
\* whatever the flags; a failed workbook raises before the JSON file; a
\* failed JSON file is only logged
ExportMenuToExcel(include_json, excel_sink, json_sink) ==
    LET excel == JsonToExcel(excel_sink)
    IN  IF ~excel.returned
        THEN [ raised |-> TRUE, excel_file |-> FALSE, json_file |-> FALSE ]
        ELSE [ raised |-> FALSE, excel_file |-> TRUE,
               json_file |-> (include_json /\ json_sink = "ok") ]

\* the branch of lines 412-445 that exports whatever the inference returned
AfterInferenceAlwaysExport(inference, json_flag, excel_flag) ==
    CASE inference = "raised" -> "failed"
      [] OTHER -> IF excel_flag \/ json_flag THEN "export" ELSE "successful"

\* what the loop body does once the inference call is over (lines 412-445):
\* it calls the export, or counts the file as successful or as failed
AfterInference(inference, json_flag, excel_flag) ==
    CASE inference = "data" ->
             IF excel_flag \/ json_flag THEN "export" ELSE "successful"
      [] inference = "failure" -> "failed"
      [] inference = "raised"  -> "failed"

\* the entry of conv_log being worked on
Current == conv_log[Len(conv_log)]

ExporterNotCalled ==
    /\ json_data = EmptyDict
    /\ pc = "entry"
    /\ restaurant_name = None
    /\ area_id = None
    /\ area_display_name = None
    /\ category_map = EmptyDict
    /\ addon_group_map = EmptyDict
    /\ rows = <<>>
    /\ item_index = 0
    /\ item_rows = <<>>
    /\ df = None
    /\ heap = <<>>
    /\ row_refs = <<>>

\* the call of convert_menu_to_structured_data on a directory with its
\* prerequisites met (lines 374-388), and of process_directory_for_conversion
\* (line 470): the images found, one worker or the default pool
ConvertInit ==
    /\ \E n \in 0..MaxImages : image_files = [ i \in 1..n |-> FileName(i) ]
    /\ output_path = None
    /\ max_workers \in {1, DefaultWorkers(0)}
    /\ ocr_pc = IF image_files = <<>> THEN "idle" ELSE "submit"
    /\ futures = <<>>
    /\ yielded = <<>>
    /\ successful_files = 0
    /\ failed_files = 0
    /\ results = <<>>
    /\ export_json \in BOOLEAN
    /\ export_excel \in BOOLEAN
    /\ conv_pc = "ocr"
    /\ ocr_results = <<>>
    /\ total_files = 0
    /\ successful_conversions = 0
    /\ failed_conversions = 0
    /\ conv_log = <<>>
    /\ conv_return = None
    /\ ExporterNotCalled
    /\ LlmNotCalled

ConvertFinishTask == FinishTaskReading(ConvertReads)

\* no valid image: process_directory_for_conversion returns [] (lines
\* 472-474) and the run returns False (lines 391-393)
NoImages ==
    /\ conv_pc = "ocr"
    /\ image_files = <<>>
    /\ conv_pc' = "done"
    /\ conv_return' = "False"
    /\ UNCHANGED <<export_json, export_excel, ocr_results, total_files,
                   successful_conversions, failed_conversions, conv_log,
                   ocr_vars, exporter_vars, llm_vars>>

\* the results process_images_parallel has so far, taken without waiting
\* for it to return
CollectOcrResultsEarly ==
    /\ conv_pc = "ocr"
    /\ ocr_pc \in {"collect", "returned"}
    /\ LET found == OcrResults(successful_files, results)
       IN  /\ ocr_results' = found
           /\ IF found = <<>>
              THEN /\ conv_pc' = "done"
                   /\ conv_return' = "False"
                   /\ UNCHANGED total_files
              ELSE /\ conv_pc' = "loop"
                   /\ total_files' = Len(found)
                   /\ UNCHANGED conv_return
    /\ UNCHANGED <<export_json, export_excel, successful_conversions,
                   failed_conversions, conv_log, ocr_vars, exporter_vars, llm_vars>>

\* process_images_parallel has returned: process_directory_for_conversion
\* builds ocr_results (lines 480-498); without any the run returns False
\* (lines 391-393), otherwise the loop is set up (lines 396-398)
CollectOcrResults ==
    /\ conv_pc = "ocr"
    /\ ocr_pc = "returned"
    /\ LET found == OcrResults(successful_files, results)
       IN  /\ ocr_results' = found
           /\ IF found = <<>>
              THEN /\ conv_pc' = "done"
                   /\ conv_return' = "False"
                   /\ UNCHANGED total_files
              ELSE /\ conv_pc' = "loop"
                   /\ total_files' = Len(found)
                   /\ UNCHANGED conv_return
    /\ UNCHANGED <<export_json, export_excel, successful_conversions,
                   failed_conversions, conv_log, ocr_vars, exporter_vars, llm_vars>>

\* the loop takes up the next OCR result and calls text_to_json_with_gemini
\* (lines 400-410)
CallInference ==
    /\ conv_pc = "loop"
    /\ Len(conv_log) < total_files
    /\ conv_log' = Append(conv_log,
                          [ filename |-> ocr_results[Len(conv_log) + 1][1],
                            inference |-> "running", export |-> "not_called",
                            excel_sink |-> None,
                            excel_file |-> FALSE, json_file |-> FALSE,
                            counted |-> "none" ])
    /\ conv_pc' = "infer"
    /\ UNCHANGED <<export_json, export_excel, ocr_results, total_files,
                   successful_conversions, failed_conversions, conv_return,
                   ocr_vars, exporter_vars, llm_vars>>

\* the inference call is over: a catalog, the failure triple, or an exception
\* (lines 406-445); the export is called only for a catalog
InferenceReturns ==
    /\ conv_pc = "infer"
    /\ \E inference \in {"data", "failure", "raised"} :
         LET then == AfterInference(inference, export_json, export_excel)
         IN  /\ conv_log' = [ conv_log EXCEPT
                                ![Len(conv_log)].inference = inference,
                                ![Len(conv_log)].export =
                                    IF then = "export" THEN "running" ELSE @,
                                ![Len(conv_log)].counted =
                                    IF then = "export" THEN @ ELSE then ]
             /\ conv_pc' = IF then = "export" THEN "export" ELSE "loop"
             /\ successful_conversions' =
                    IF then = "successful" THEN successful_conversions + 1
                    ELSE successful_conversions
             /\ failed_conversions' =
                    IF then = "failed" THEN failed_conversions + 1
                    ELSE failed_conversions
    /\ UNCHANGED <<export_json, export_excel, ocr_results, total_files,
                   conv_return, ocr_vars, exporter_vars, llm_vars>>

\* export_menu_to_excel is over (lines 423-439): it returned the paths, or
\* raised and the handler of line 437 counted the file as failed
ExportReturns ==
    /\ conv_pc = "export"
    /\ \E excel_sink \in {"ok", "fails"} :
       \E json_sink \in IF excel_sink = "ok" /\ export_json
                        THEN {"ok", "fails"} ELSE {"ok"} :
         LET out == ExportMenuToExcel(export_json, excel_sink, json_sink)
         IN  /\ conv_log' = [ conv_log EXCEPT
                                ![Len(conv_log)].export =
                                    IF out.raised THEN "raised" ELSE "returned",
                                ![Len(conv_log)].excel_sink = excel_sink,
                                ![Len(conv_log)].excel_file = out.excel_file,
                                ![Len(conv_log)].json_file = out.json_file,
                                ![Len(conv_log)].counted =
                                    IF out.raised THEN "failed"
                                    ELSE "successful" ]
             /\ successful_conversions' =
                    IF out.raised THEN successful_conversions
                    ELSE successful_conversions + 1
             /\ failed_conversions' =
                    IF out.raised THEN failed_conversions + 1
                    ELSE failed_conversions
    /\ conv_pc' = "loop"
    /\ UNCHANGED <<export_json, export_excel, ocr_results, total_files,
                   conv_return, ocr_vars, exporter_vars, llm_vars>>

\* the loop is over: the summary is logged and the run returns (lines
\* 447-459)
ConvertReturn ==
    /\ conv_pc = "loop"
    /\ Len(conv_log) = total_files
    /\ conv_pc' = "done"
    /\ conv_return' = IF successful_conversions > 0 THEN "True" ELSE "False"
    /\ UNCHANGED <<export_json, export_excel, ocr_results, total_files,
                   successful_conversions, failed_conversions, conv_log,
                   ocr_vars, exporter_vars, llm_vars>>

ConvertNext ==
    \/ NoImages
    \/ Submit \/ AllSubmitted \/ StartTask \/ ConvertFinishTask
    \/ Collect \/ Return
    \/ CollectOcrResults
    \/ CallInference \/ InferenceReturns \/ ExportReturns
    \/ ConvertReturn

ConvertSpec == ConvertInit /\ [][ConvertNext]_vars

----------------------------------------------------------------------------
(* The inference adapter: GeminiConverter.text_to_json_with_gemini and      *)
(* _validate_and_enhance_json (llm_converter.py).  The text of a response   *)
(* is a sequence of tokens: blanks, a code fence with or without the json   *)
(* tag, and a body; a body is JSON of some type or no JSON at all.  An      *)
(* Optional[Dict] is a sequence of at most one dict.                        *)

\* the defaults of lines 312-318
RestaurantDefaults ==
    [ restaurantname |-> "Unknown", country |-> "", address |-> "",
      contact |-> "", cuisines |-> "", city |-> "", state |-> "" ]

\* lines 337-340
AreaDefaults ==
    [ areaid |-> None, displayname |-> "Main Dining", active |-> "1",
      rank |-> "1" ]

\* lines 344-349
CategoryDefaults ==
    [ categoryid |-> None, active |-> "1", categoryrank |-> "1",
      category_image_url |-> None, parent_category_id |-> "0",
      categorytimings |-> "" ]

\* lines 353-371
ItemDefaults ==
    [ itemid |-> None, itemallowvariation |-> 0, itemrank |-> "1",
      item_categoryid |-> None, active |-> "1", item_favorite |-> "0",
      itemallowaddon |-> "1", itemaddonbasedon |-> "0", instock |-> "2",
      ignore_taxes |-> "0", ignore_discounts |-> "0", days |-> "-1",
      item_attributeid |-> "1", itemdescription |-> "",
      minimumpreparationtime |-> "", item_image_url |-> "",
      variation |-> <<>>, addon |-> <<>>, item_tax |-> "" ]

\* lines 375-383
GroupDefaults ==
    [ addongroupid |-> None, addongroup_restaurantid |-> None,
      addongroup_rank |-> "1", active |-> "1", show_in_online |-> "1",
      show_in_pos |-> "1", min_qty |-> "0", max_qty |-> "2",
      addongroupitems |-> <<>> ]

\* lines 387-392
AddonItemDefaults ==
    [ addonitemid |-> None, active |-> "1", attributes |-> "1",
      addonitem_rank |-> "1", parent_addon_id |-> "0", status |-> "1" ]

\* d[k] = v for every default, whatever d holds
SetDefaultsOverwrite(d, defaults) == defaults @@ d

\* d.setdefault(k, v) for every k, v of defaults: the keys d holds keep
\* their values
SetDefaults(d, defaults) == d @@ defaults

\* [setdefaults(e) for e in entries]: the loops of lines 336-392
EachWithDefaults(entries, defaults) ==
    [ i \in 1..Len(entries) |-> SetDefaults(entries[i], defaults) ]

\* source_image_path or "Unknown"  (line 301)
OrUnknown(path) == IF path = None \/ path = "" THEN "Unknown" ELSE path

\* the restaurant of lines 298-318
EnhancedRestaurant(data, path) ==
    IF "restaurant" \notin DOMAIN data
    THEN Put(RestaurantDefaults, "source_image", OrUnknown(path))
    ELSE SetDefaults(IF path # None /\ path # ""
                     THEN Put(data["restaurant"], "source_image", path)
                     ELSE data["restaurant"],
                     RestaurantDefaults)

\* one addon group of lines 374-392
EnhancedGroup(group) ==
    LET g == SetDefaults(group, GroupDefaults)
    IN  Put(g, "addongroupitems",
            EachWithDefaults(g["addongroupitems"], AddonItemDefaults))

\* _validate_and_enhance_json(json_data, source_image_path) on a dict
\* (lines 282-394)
ValidateAndEnhanceJson(data, path) ==
    LET groups == Get(data, "addongroups", <<>>)
    IN  Update(data,
          [ restaurant  |-> EnhancedRestaurant(data, path),
            areas       |-> EachWithDefaults(Get(data, "areas", <<>>),
                                             AreaDefaults),
            categories  |-> EachWithDefaults(Get(data, "categories", <<>>),
                                             CategoryDefaults),
            items       |-> EachWithDefaults(Get(data, "items", <<>>),
                                             ItemDefaults),
            addongroups |-> [ i \in 1..Len(groups) |-> EnhancedGroup(groups[i]) ],
            audit_log   |-> Get(data, "audit_log", <<>>) ])

Blank == [ tok |-> "blank", type |-> None, value |-> EmptyDict ]

Fence == [ tok |-> "fence", type |-> None, value |-> EmptyDict ]

FenceJson == [ tok |-> "fence_json", type |-> None, value |-> EmptyDict ]

\* a body of a JSON type; value is the dict when the type is object
Body(type, value) == [ tok |-> "body", type |-> type, value |-> value ]

\* text.strip() on a sequence of tokens
RECURSIVE StripTokens(_)
StripTokens(t) ==
    IF t = <<>> THEN t
    ELSE IF t[1].tok = "blank" THEN StripTokens(Tail(t))
    ELSE IF t[Len(t)].tok = "blank" THEN StripTokens(SubSeq(t, 1, Len(t) - 1))
    ELSE t

\* the cleaning of lines 251-261: strip, drop a leading fence with the json
\* tag, drop a leading fence, drop a trailing fence, strip
CleanResponseText(text) ==
    LET t0 == StripTokens(text)
        t1 == IF t0 # <<>> /\ t0[1].tok = "fence_json" THEN Tail(t0) ELSE t0
        t2 == IF t1 # <<>> /\ t1[1].tok = "fence" THEN Tail(t1) ELSE t1
        t3 == IF t2 # <<>> /\ t2[Len(t2)].tok = "fence"
              THEN SubSeq(t2, 1, Len(t2) - 1) ELSE t2
    IN  StripTokens(t3)

\* json.loads(response_text): a value when the text is one JSON body,
\* JSONDecodeError otherwise
JsonLoads(text) ==
    IF Len(text) = 1 /\ text[1].tok = "body" /\ text[1].type # "not_json"
    THEN [ raised |-> FALSE, type |-> text[1].type, value |-> text[1].value ]
    ELSE [ raised |-> TRUE, type |-> None, value |-> EmptyDict ]

\* the triple of the return statements
Triple(success, data, error) ==
    [ raised |-> FALSE, success |-> success, data |-> data, error |-> error ]

\* an exception leaving the call
Raised == [ raised |-> TRUE, success |-> FALSE, data |-> <<>>, error |-> None ]

\* the try block of lines 231-280 without the handler of line 278
AfterResponseNoHandler(answer, path) ==
    IF answer.kind = "raises" THEN Raised
    ELSE IF answer.kind = "empty"
    THEN Triple(FALSE, <<>>, "Empty response from Gemini")
    ELSE LET parsed == JsonLoads(CleanResponseText(answer.text))
         IN  IF parsed.raised
             THEN Triple(FALSE, <<>>, "Invalid JSON format from Gemini")
             ELSE IF parsed.type # "object"
             THEN Raised
             ELSE Triple(TRUE,
                         <<ValidateAndEnhanceJson(parsed.value, path)>>, None)

\* text_to_json_with_gemini once generate_content is over (lines 247-280):
\* an exception of the call, or of _validate_and_enhance_json on a value
\* that is not a dict of dicts and lists of dicts, is caught at line 278
AfterResponse(answer, path) ==
    IF answer.kind = "raises"
    THEN Triple(FALSE, <<>>, "Gemini API error")
    ELSE IF answer.kind = "empty"
    THEN Triple(FALSE, <<>>, "Empty response from Gemini")
    ELSE LET parsed == JsonLoads(CleanResponseText(answer.text))
         IN  IF parsed.raised
             THEN Triple(FALSE, <<>>, "Invalid JSON format from Gemini")
             ELSE IF parsed.type # "object"
             THEN Triple(FALSE, <<>>, "Gemini API error")
             ELSE Triple(TRUE,
                         <<ValidateAndEnhanceJson(parsed.value, path)>>, None)

----------------------------------------------------------------------------
(* The responses explored. *)

NoKey == EmptyDict

RestaurantChoices ==
    { NoKey,
      [ restaurant |-> EmptyDict ],
      [ restaurant |-> [ restaurantname |-> "Calzone",
                         source_image |-> "old.png" ] ] }

AreaChoices ==
    { NoKey,
      [ areas |-> << EmptyDict >> ],
      [ areas |-> << [ displayname |-> "Patio", active |-> "0" ] >> ] }

ResponseCategoryChoices ==
    { NoKey,
      [ categories |-> << [ categoryname |-> "Pizza" ] >> ],
      [ categories |-> << [ categoryid |-> "C1", categoryname |-> "Pizza",
                            active |-> "0", categoryrank |-> "3" ] >> ] }

ResponseItemChoices ==
    { NoKey,
      [ items |-> << [ itemname |-> "Margherita", price |-> "259" ] >> ],
      [ items |-> << [ itemname |-> "Teriyaki", price |-> "289",
                       instock |-> "0", itemallowvariation |-> 1,
                       item_attributeid |-> "2",
                       variation |-> << [ variation_name |-> "Large",
                                          variation_price |-> "349" ] >>,
                       addon |-> << [ addon_group_id |-> "G1" ] >> ] >> ] }

ResponseGroupChoices ==
    { NoKey,
      [ addongroups |-> << [ addongroupid |-> "G1",
                             addongroup_name |-> "Extras" ] >> ],
      [ addongroups |-> << [ addongroup_name |-> "Extras", max_qty |-> "5",
                             addongroupitems |->
                                 << [ addonitem_name |-> "Cheese",
                                      addonitem_price |-> "40",
                                      status |-> "0" ] >> ] >> ] }

AuditChoices == { NoKey, [ audit_log |-> <<>> ] }

\* the JSON objects a response can hold
ResponseObjects ==
    { r @@ a @@ c @@ i @@ g @@ l :
        r \in RestaurantChoices, a \in AreaChoices,
        c \in ResponseCategoryChoices, i \in ResponseItemChoices,
        g \in ResponseGroupChoices, l \in AuditChoices }

\* a full object, used where the wrapping of the text is what varies
FullObject ==
    [ restaurant |-> [ restaurantname |-> "Calzone" ],
      items |-> << [ itemname |-> "Margherita", price |-> "259" ] >> ]

\* what generate_content can give: an exception, no response or no text, or
\* a text: a bare object, an object wrapped in fences and blanks, blanks
\* only, JSON that is no object, JSON of an object one of whose sections is
\* no dict, and no JSON
Answers ==
    { [ kind |-> "raises", text |-> <<>> ], [ kind |-> "empty", text |-> <<>> ] }
    \cup { [ kind |-> "text", text |-> << Body("object", o) >> ] :
             o \in ResponseObjects }
    \cup { [ kind |-> "text", text |-> t ] :
             t \in { << FenceJson, Body("object", FullObject), Fence >>,
                     << Blank, Fence, Body("object", FullObject), Fence, Blank >>,
                     << FenceJson, Body("object", FullObject) >>,
                     << Blank, Body("object", FullObject), Blank >>,
                     << Fence, Fence, Body("object", FullObject) >>,
                     << Blank >>,
                     << Body("array", EmptyDict) >>,
                     << Body("null", EmptyDict) >>,
                     << Body("number", EmptyDict) >>,
                     << Body("string", EmptyDict) >>,
                     << Body("object_bad_section", EmptyDict) >>,
                     << Body("not_json", EmptyDict) >>,
                     << Body("object", FullObject), Body("not_json", EmptyDict) >> } }

----------------------------------------------------------------------------
(* text_to_json_with_gemini *)

\* the call: a converter whose model was or was not initialised (lines
\* 31-57), a text, a source image path or None
LlmInit ==
    /\ llm_model \in BOOLEAN
    /\ raw_text \in {"Idli 40", "", "  "}
    /\ source_image_path \in {None, "menu.png"}
    /\ llm_pc = "entry"
    /\ response = None
    /\ model_calls = 0
    /\ llm_return = None
    /\ revalidated = None
    /\ ExporterNotCalled
    /\ OcrNotCalled
    /\ ConvertNotCalled

\* lines 225-229: no model, or no text
ReturnEarly ==
    /\ llm_pc = "entry"
    /\ \/ /\ ~llm_model
          /\ llm_return' = Triple(FALSE, <<>>, "Gemini model not initialized")
       \/ /\ llm_model
          /\ ~TruthyText(Strip(raw_text))
          /\ llm_return' = Triple(FALSE, <<>>, "Empty or invalid input text")
    /\ llm_pc' = "returned"
    /\ UNCHANGED <<llm_model, raw_text, source_image_path, response,
                   model_calls, revalidated, exporter_vars, ocr_vars,
                   convert_vars>>

\* lines 231-245: the prompt is built and generate_content is called
CallModel ==
    /\ llm_pc = "entry"
    /\ llm_model
    /\ TruthyText(Strip(raw_text))
    /\ model_calls' = model_calls + 1
    /\ llm_pc' = "called"
    /\ UNCHANGED <<llm_model, raw_text, source_image_path, response,
                   llm_return, revalidated, exporter_vars, ocr_vars,
                   convert_vars>>

\* generate_content is over and the call returns (lines 245-280)
ModelResponds ==
    /\ llm_pc = "called"
    /\ \E answer \in Answers :
         /\ response' = answer
         /\ llm_return' = AfterResponse(answer, source_image_path)
    /\ llm_pc' = "returned"
    /\ UNCHANGED <<llm_model, raw_text, source_image_path, model_calls,
                   revalidated, exporter_vars, ocr_vars, convert_vars>>

\* _validate_and_enhance_json applied once more, to the catalog returned
Revalidate ==
    /\ llm_pc = "returned"
    /\ llm_return.success
    /\ revalidated' = ValidateAndEnhanceJson(llm_return.data[1],
                                             source_image_path)
    /\ llm_pc' = "revalidated"
    /\ UNCHANGED <<llm_model, raw_text, source_image_path, response,
                   model_calls, llm_return, exporter_vars, ocr_vars,
                   convert_vars>>

LlmNext == ReturnEarly \/ CallModel \/ ModelResponds \/ Revalidate

LlmSpec == LlmInit /\ [][LlmNext]_vars

----------------------------------------------------------------------------
(* The second flattener: create_complete_menu_sheet                         *)
(* (create_comprehensive_excel.py), on the catalogs of the exporter.        *)

\* {e[key]: e for e in entries} raises KeyError: an entry without the key
\* (lines 243-245)
LookupRaises(data) ==
    \/ \E i \in 1..Len(Get(data, "categories", <<>>)) :
          "categoryid" \notin DOMAIN data["categories"][i]
    \/ \E i \in 1..Len(Get(data, "addongroups", <<>>)) :
          "addongroupid" \notin DOMAIN data["addongroups"][i]
    \/ \E i \in 1..Len(Get(data, "areas", <<>>)) :
          "areaid" \notin DOMAIN data["areas"][i]

\* base_data of lines 256-271
CompleteBaseData(item, name, categories) ==
    LET category_id   == Get(item, "item_categoryid", "")
        category_info == Get(categories, category_id, EmptyDict)
    IN  ("Restaurant Name" :> name)
        @@ ("Category ID" :> category_id)
        @@ ("Category Name" :> Get(category_info, "categoryname", ""))
        @@ ("Category Rank" :> Get(category_info, "categoryrank", ""))
        @@ ("Item ID" :> Get(item, "itemid", ""))
        @@ ("Item Name" :> Get(item, "itemname", ""))
        @@ ("Item Description" :> Get(item, "itemdescription", ""))
        @@ ("Price" :> Get(item, "price", ""))
        @@ ("Item Rank" :> Get(item, "itemrank", ""))
        @@ ("In Stock" :> Get(item, "instock", ""))
        @@ ("Active" :> Get(item, "active", ""))
        @@ ("Attribute" :> Get(item, "item_attributeid", ""))
        @@ ("Allow Addon" :> Get(item, "itemallowaddon", ""))
        @@ ("Allow Variation" :> Get(item, "itemallowvariation", ""))

CompleteNoVariation ==
    ("Variation ID" :> None) @@ ("Variation Name" :> None)
    @@ ("Variation Price" :> None)

CompleteVariation(var) ==
    ("Variation ID" :> Get(var, "variationid", ""))
    @@ ("Variation Name" :> Get(var, "variation_name", ""))
    @@ ("Variation Price" :> Get(var, "variation_price", ""))

CompleteNoAddon ==
    ("Addon Group ID" :> None) @@ ("Addon Group Name" :> None)
    @@ ("Addon Item ID" :> None) @@ ("Addon Item Name" :> None)
    @@ ("Addon Price" :> None)

\* the rows of one addon ref: one per addon item of its group, none when the
\* group is not found or has no items (lines 296-307, 312-325)
CompleteRefRows(upper, addon_ref, groups) ==
    LET group_id    == Get(addon_ref, "addon_group_id", "")
        group_info  == Get(groups, group_id, EmptyDict)
        addon_items == Get(group_info, "addongroupitems", <<>>)
    IN  [ a \in 1..Len(addon_items) |->
            upper
            @@ ("Addon Group ID" :> group_id)
            @@ ("Addon Group Name" :> Get(group_info, "addongroup_name", ""))
            @@ ("Addon Item ID" :> Get(addon_items[a], "addonitemid", ""))
            @@ ("Addon Item Name" :> Get(addon_items[a], "addonitem_name", ""))
            @@ ("Addon Price" :> Get(addon_items[a], "addonitem_price", "")) ]

\* for addon_ref in addons, from ref i on
RECURSIVE CompleteRefLoop(_, _, _, _)
CompleteRefLoop(upper, addons, groups, i) ==
    IF i > Len(addons) THEN <<>>
    ELSE CompleteRefRows(upper, addons[i], groups)
         \o CompleteRefLoop(upper, addons, groups, i + 1)

\* for var in variations, from variation v on: the rows of every ref
RECURSIVE CompleteVariationLoop(_, _, _, _, _)
CompleteVariationLoop(base, variations, addons, groups, v) ==
    IF v > Len(variations) THEN <<>>
    ELSE CompleteRefLoop(base @@ CompleteVariation(variations[v]),
                         addons, groups, 1)
         \o CompleteVariationLoop(base, variations, addons, groups, v + 1)

\* the rows of one item (lines 250-325)
CompleteItemRows(item, name, categories, groups) ==
    LET base       == CompleteBaseData(item, name, categories)
        variations == Get(item, "variation", <<>>)
        addons     == Get(item, "addon", <<>>)
    IN  IF ~Truthy(variations) /\ ~Truthy(addons)
        THEN << base @@ CompleteNoVariation @@ CompleteNoAddon >>
        ELSE IF Truthy(variations) /\ ~Truthy(addons)
        THEN [ v \in 1..Len(variations) |->
                 base @@ CompleteVariation(variations[v]) @@ CompleteNoAddon ]
        ELSE IF ~Truthy(variations)
        THEN CompleteRefLoop(base @@ CompleteNoVariation, addons, groups, 1)
        ELSE CompleteVariationLoop(base, variations, addons, groups, 1)

\* create_complete_menu_sheet(data)  (lines 238-327): the rows item by item,
\* or the KeyError of the lookups; a catalog of the exporter has no
\* "restaurants" list, so the restaurant name is the default of line 240
CreateCompleteMenuSheet(data) ==
    IF LookupRaises(data)
    THEN [ raised |-> TRUE, item_rows |-> <<>> ]
    ELSE LET categories == DictComprehension(EmptyDict,
                               Get(data, "categories", <<>>), "categoryid", 1)
             groups     == DictComprehension(EmptyDict,
                               Get(data, "addongroups", <<>>), "addongroupid", 1)
             its        == Get(data, "items", <<>>)
         IN  [ raised |-> FALSE,
               item_rows |-> [ k \in 1..Len(its) |->
                                 CompleteItemRows(its[k], "Unknown",
                                                  categories, groups) ] ]

----------------------------------------------------------------------------
(* What the claims speak of. *)

VariationsOf(item) == Get(item, "variation", <<>>)

RefsOf(item) == Get(item, "addon", <<>>)

\* the items _create_item_rows has returned for
Processed == 1..Len(item_rows)

\* the addon ref resolves through the addon-group index
Resolves(addon_ref) == GetOrNone(addon_ref, "addon_group_id") \in DOMAIN addon_group_map

\* the group an addon ref resolves to
GroupOf(addon_ref) == addon_group_map[GetOrNone(addon_ref, "addon_group_id")]

\* k_i: the number of addon items of the group the ref resolves to, 0 when
\* it resolves to none
GroupSize(addon_ref) ==
    IF Resolves(addon_ref)
    THEN Len(Get(GroupOf(addon_ref), "addongroupitems", <<>>))
    ELSE 0

Max1(n) == IF n > 1 THEN n ELSE 1

\* sum of max(k_i, 1) over the first n addon refs
RECURSIVE BlockSum(_, _)
BlockSum(addon_refs, n) ==
    IF n = 0 THEN 0
    ELSE BlockSum(addon_refs, n - 1) + Max1(GroupSize(addon_refs[n]))

ExpectedCount(item) ==
    LET N == Len(VariationsOf(item))
        M == Len(RefsOf(item))
    IN  IF N = 0 /\ M = 0 THEN 1
        ELSE IF M = 0 THEN N
        ELSE IF N = 0 THEN BlockSum(RefsOf(item), M)
        ELSE N * BlockSum(RefsOf(item), M)

\* C1: for every item, _create_item_rows returns 1 row when the item has no
\* variation and no addon ref, N rows for N variations and no addon ref, the
\* sum of max(k_i, 1) for no variation and M addon refs, and N times that sum
\* for N variations and M addon refs.
C1_RowCount ==
    \A k \in Processed : Len(item_rows[k]) = ExpectedCount(Items[k])

\* two variations, a ref to a group of two items and a ref that resolves to
\* nothing: 2 * (2 + 1) rows
C1_Witness ==
    /\ pc = "done"
    /\ \E k \in Processed :
         /\ Len(VariationsOf(Items[k])) = 2
         /\ Len(RefsOf(Items[k])) = 2
         /\ GroupSize(RefsOf(Items[k])[1]) = 2
         /\ ~Resolves(RefsOf(Items[k])[2])
         /\ Len(item_rows[k]) = 6

VariationKeys ==
    { <<"variation_item_id", "variationitemid">>, <<"variation_id", "variationid">>,
      <<"variation_name", "variation_name">>, <<"variation_price", "variation_price">> }

\* the row carries the four fields of the variation
CarriesVariation(row, variation) ==
    \A f \in VariationKeys : row[f[1]] = GetOrNone(variation, f[2])

\* the row carries the group id and the selection mode of the addon ref
CarriesRef(row, addon_ref) ==
    /\ row["addon_group_id"] = GetOrNone(addon_ref, "addon_group_id")
    /\ row["addon_item_selection"] = GetOrNone(addon_ref, "addon_item_selection")

\* C2: every variation and every addon ref of an item is represented by at
\* least one of the rows returned for the item.
C2_NothingDropped ==
    \A k \in Processed :
        /\ \A i \in 1..Len(VariationsOf(Items[k])) :
              \E p \in 1..Len(item_rows[k]) :
                  CarriesVariation(item_rows[k][p], VariationsOf(Items[k])[i])
        /\ \A i \in 1..Len(RefsOf(Items[k])) :
              \E p \in 1..Len(item_rows[k]) :
                  CarriesRef(item_rows[k][p], RefsOf(Items[k])[i])

\* an item with variations and with an addon ref that resolves to nothing
C2_Witness ==
    /\ pc = "done"
    /\ \E k \in Processed :
         /\ Len(VariationsOf(Items[k])) = 2
         /\ \E i \in 1..Len(RefsOf(Items[k])) :
              /\ ~Resolves(RefsOf(Items[k])[i])
              /\ \E p \in 1..Len(item_rows[k]) :
                    /\ CarriesRef(item_rows[k][p], RefsOf(Items[k])[i])
                    /\ item_rows[k][p]["variation_name"] = "Large"

\* the addon items of the group the ref resolves to
AddonItemsOf(addon_ref) ==
    IF Resolves(addon_ref) THEN Get(GroupOf(addon_ref), "addongroupitems", <<>>)
    ELSE <<>>

\* the (variation, addon ref, addon item) positions of an item that has both;
\* an addon ref whose group is empty or unresolved has the one position 1
Triples(item) ==
    { t \in (1..Len(VariationsOf(item))) \X (1..Len(RefsOf(item)))
            \X (1..BlockSum(RefsOf(item), Len(RefsOf(item)))) :
        t[3] <= Max1(GroupSize(RefsOf(item)[t[2]])) }

LexLess(t, u) ==
    \/ t[1] < u[1]
    \/ t[1] = u[1] /\ t[2] < u[2]
    \/ t[1] = u[1] /\ t[2] = u[2] /\ t[3] < u[3]

\* the place of a triple in the nested enumeration
Place(item, t) == 1 + Cardinality({ u \in Triples(item) : LexLess(u, t) })

\* the selection bounds the addon ref carries are those of the row
CarriesSelectionBounds(row, addon_ref) ==
    \A f \in { "addon_item_selection_min", "addon_item_selection_max" } :
        f \in DOMAIN addon_ref => row[f] = addon_ref[f]

\* the addon-item fields of the row are those of the addon item
CarriesAddonItem(row, addon_item) ==
    /\ row["addon_id"] = GetOrNone(addon_item, "addonitemid")
    /\ row["addon_name"] = GetOrNone(addon_item, "addonitem_name")
    /\ row["addon_price"] = GetOrNone(addon_item, "addonitem_price")

\* the addon-item fields of the row are null
NoAddonItem(row) ==
    /\ row["addon_id"] = None
    /\ row["addon_name"] = None
    /\ row["addon_price"] = None

\* the row is the one of the triple
CarriesTriple(row, item, t) ==
    LET addon_ref == RefsOf(item)[t[2]]
    IN  /\ CarriesVariation(row, VariationsOf(item)[t[1]])
        /\ CarriesRef(row, addon_ref)
        /\ CarriesSelectionBounds(row, addon_ref)
        /\ IF GroupSize(addon_ref) > 0
           THEN CarriesAddonItem(row, AddonItemsOf(addon_ref)[t[3]])
           ELSE NoAddonItem(row)

\* C3: for an item with variations and addon refs the rows are the nested
\* enumeration in source order, variations outermost, then addon refs, then
\* the addon items of the ref's group (one placeholder when there is none),
\* each row carrying its variation, its ref and its addon item.
C3_NestedOrder ==
    \A k \in Processed :
        (Truthy(VariationsOf(Items[k])) /\ Truthy(RefsOf(Items[k]))) =>
            /\ Len(item_rows[k]) = Cardinality(Triples(Items[k]))
            /\ \A t \in Triples(Items[k]) :
                  CarriesTriple(item_rows[k][Place(Items[k], t)], Items[k], t)

\* variations [Regular, Large] and one ref to the group [Cheese, Olives]:
\* (Regular, Cheese), (Regular, Olives), (Large, Cheese), (Large, Olives)
C3_Witness ==
    /\ pc = "done"
    /\ \E k \in Processed :
         /\ Len(VariationsOf(Items[k])) = 2
         /\ Len(RefsOf(Items[k])) = 1
         /\ Len(item_rows[k]) = 4
         /\ item_rows[k][1]["variation_id"] = "V1" /\ item_rows[k][1]["addon_id"] = "A1"
         /\ item_rows[k][2]["variation_id"] = "V1" /\ item_rows[k][2]["addon_id"] = "A2"
         /\ item_rows[k][3]["variation_id"] = "V2" /\ item_rows[k][3]["addon_id"] = "A1"
         /\ item_rows[k][4]["variation_id"] = "V2" /\ item_rows[k][4]["addon_id"] = "A2"
         /\ item_rows[k][4]["category_name"] = "Pasta"

\* C4: a catalog without items flattens to exactly one row, which carries the
\* restaurant name and the first area's id and display name (null without an
\* area) and whose 24 category, item, variation and addon fields are null.
C4_EmptyCatalogRow ==
    (pc \in {"frame", "done"} /\ ~Truthy(Items)) =>
        /\ Len(rows) = 1
        /\ LET restaurant == Get(json_data, "restaurant", EmptyDict)
               areas      == Get(json_data, "areas", <<>>)
           IN  /\ "restaurantname" \in DOMAIN restaurant =>
                     rows[1]["restaurant_name"] = restaurant["restaurantname"]
               /\ rows[1]["area_id"] =
                     (IF areas = <<>> THEN None ELSE GetOrNone(areas[1], "areaid"))
               /\ rows[1]["area_display_name"] =
                     (IF areas = <<>> THEN None ELSE GetOrNone(areas[1], "displayname"))
        /\ \A j \in 4..Len(Columns) : rows[1][Columns[j]] = None

\* the restaurant "Test" with an area and no item
C4_Witness ==
    /\ pc = "done"
    /\ ~Truthy(Items)
    /\ Len(rows) = 1
    /\ rows[1]["restaurant_name"] = "Test"
    /\ rows[1]["area_id"] = "AR1"
    /\ rows[1]["item_name"] = None

\* the reference of an item to its category
CategoryRef(item) == GetOrNone(item, "item_categoryid")

\* C5: a category or addon group without an id is not indexed: an item whose
\* category reference is null resolves to no category and an addon ref whose
\* group id is null resolves to no addon group.
C5_NullIdNotIndexed ==
    /\ None \notin DOMAIN category_map
    /\ None \notin DOMAIN addon_group_map
    /\ \A k \in Processed : \A p \in 1..Len(item_rows[k]) :
          LET row == item_rows[k][p]
          IN  /\ CategoryRef(Items[k]) = None =>
                    /\ row["category_name"] \in {None, ""}
                    /\ row["category_timings"] = None
                    /\ row["category_rank"] = None
              /\ (Truthy(RefsOf(Items[k])) /\ row["addon_group_id"] = None) =>
                    /\ row["addon_group_name"] \in {None, ""}
                    /\ NoAddonItem(row)

\* C6: an item with no variation and one addon ref whose group id matches no
\* indexed addon group gets exactly one row, with the ref's group id and with
\* addon_group_name, addon_id, addon_name and addon_price null.
C6_UnresolvedGroupRow ==
    \A k \in Processed :
        (/\ ~Truthy(VariationsOf(Items[k]))
         /\ Len(RefsOf(Items[k])) = 1
         /\ ~Resolves(RefsOf(Items[k])[1])) =>
            /\ Len(item_rows[k]) = 1
            /\ item_rows[k][1]["addon_group_id"] =
                  GetOrNone(RefsOf(Items[k])[1], "addon_group_id")
            /\ item_rows[k][1]["addon_group_name"] = None
            /\ NoAddonItem(item_rows[k][1])

\* C7: when the category reference of an item matches no indexed category,
\* every row of the item has category_name, category_image_url,
\* category_timings and category_rank null and category_id the reference.
C7_UnresolvedCategory ==
    \A k \in Processed :
        CategoryRef(Items[k]) \notin DOMAIN category_map =>
            \A p \in 1..Len(item_rows[k]) :
                /\ item_rows[k][p]["category_id"] = CategoryRef(Items[k])
                /\ item_rows[k][p]["category_name"] = None
                /\ item_rows[k][p]["category_image_url"] = None
                /\ item_rows[k][p]["category_timings"] = None
                /\ item_rows[k][p]["category_rank"] = None

\* the place of the first row of addon ref i under variation v (v = 1 when
\* the item has no variation)
BlockStart(item, v, i) ==
    (v - 1) * BlockSum(RefsOf(item), Len(RefsOf(item)))
    + BlockSum(RefsOf(item), i - 1) + 1

\* C8: an addon ref that resolves to a group without addon items gets exactly
\* one placeholder row (one per variation when the item has variations), with
\* the ref's group id and selection fields, the group's name, and addon_name,
\* addon_price and addon_id null.
C8_EmptyGroupPlaceholder ==
    \A k \in Processed : \A i \in 1..Len(RefsOf(Items[k])) :
        LET item      == Items[k]
            addon_ref == RefsOf(item)[i]
            N         == Len(VariationsOf(item))
        IN  (Resolves(addon_ref) /\ GroupSize(addon_ref) = 0) =>
                /\ Len(item_rows[k]) =
                      Max1(N) * BlockSum(RefsOf(item), Len(RefsOf(item)))
                /\ \A v \in 1..Max1(N) :
                      LET row == item_rows[k][BlockStart(item, v, i)]
                      IN  /\ CarriesRef(row, addon_ref)
                          /\ CarriesSelectionBounds(row, addon_ref)
                          /\ "addongroup_name" \in DOMAIN GroupOf(addon_ref) =>
                                row["addon_group_name"] =
                                    GroupOf(addon_ref)["addongroup_name"]
                          /\ NoAddonItem(row)
                          \* the neighbouring rows are those of the neighbouring refs
                          /\ i > 1 =>
                                CarriesRef(item_rows[k][BlockStart(item, v, i) - 1],
                                           RefsOf(item)[i - 1])
                          /\ i < Len(RefsOf(item)) =>
                                CarriesRef(item_rows[k][BlockStart(item, v, i) + 1],
                                           RefsOf(item)[i + 1])
                          /\ IF N = 0
                             THEN CarriesVariation(row, EmptyDict)
                             ELSE CarriesVariation(row, VariationsOf(item)[v])

\* two variations and a ref to the existing, empty group "Sauces" after a ref
\* to a group with items
C8_Witness ==
    /\ pc = "done"
    /\ \E k \in Processed :
         /\ Len(VariationsOf(Items[k])) = 2
         /\ Len(RefsOf(Items[k])) = 2
         /\ GroupSize(RefsOf(Items[k])[1]) = 2
         /\ Resolves(RefsOf(Items[k])[2])
         /\ GroupSize(RefsOf(Items[k])[2]) = 0
         /\ item_rows[k][3]["addon_group_name"] = "Sauces"
         /\ item_rows[k][3]["addon_id"] = None
         /\ item_rows[k][6]["addon_group_name"] = "Sauces"
         /\ item_rows[k][6]["variation_name"] = "Large"

\* C9: _create_item_rows returns for every item, and returns a list that is
\* not empty, whatever ids, names, lists or references the item lacks.
C9_Total ==
    /\ \A k \in Processed : Len(item_rows[k]) >= 1
    /\ pc \in {"frame", "done"} => Len(item_rows) = Len(Items)

\* an item without id, category reference and variation list whose only
\* addon ref has no group id, in a catalog with no category and no addon group
C9_Witness ==
    /\ pc = "done"
    /\ Get(json_data, "categories", <<>>) = <<>>
    /\ Get(json_data, "addongroups", <<>>) = <<>>
    /\ \E k \in Processed :
         /\ DOMAIN Items[k] = {"itemname", "addon"}
         /\ Len(RefsOf(Items[k])) = 1
         /\ "addon_group_id" \notin DOMAIN RefsOf(Items[k])[1]
         /\ Len(item_rows[k]) = 1

\* the expansion of item k
Expansion(k) ==
    CreateItemRows(Items[k], restaurant_name, area_id, area_display_name,
                   category_map, addon_group_map)

\* the number of rows of the items before item k
RECURSIVE RowsBefore(_)
RowsBefore(k) == IF k <= 1 THEN 0 ELSE RowsBefore(k - 1) + Len(Expansion(k - 1))

\* C10: for a catalog with items, the flattened rows are the expansions of
\* the items one after the other in item order; every item gives at least one
\* row and the number of rows is the sum of the items' row counts.
C10_Concatenation ==
    (pc \in {"frame", "done"} /\ Truthy(Items)) =>
        /\ Len(rows) = RowsBefore(Len(Items) + 1)
        /\ \A k \in 1..Len(Items) :
              /\ Len(Expansion(k)) >= 1
              /\ \A j \in 1..Len(Expansion(k)) :
                    rows[RowsBefore(k) + j] = Expansion(k)[j]

\* the item "Combo" with several rows, then the item "Margherita"
C10_Witness ==
    /\ pc = "done"
    /\ Len(Items) = 2
    /\ Len(rows) >= 6
    /\ rows[1]["item_name"] = "Combo"
    /\ rows[4]["item_name"] = "Combo"
    /\ rows[5]["item_name"] = "Margherita"
    /\ rows[Len(rows)]["item_name"] = "Margherita"

----------------------------------------------------------------------------
(* The wire contract and the field policy. *)

\* the canonical flat-row column order
CanonicalOrder ==
    << "restaurant_name", "area_id", "area_display_name", "category_id",
       "category_name", "category_image_url", "category_timings",
       "category_rank", "item_id", "item_name", "item_description", "price",
       "rank", "image_url", "instock", "variation_item_id", "variation_id",
       "variation_name", "variation_price", "addon_name",
       "addon_item_selection", "addon_item_selection_min",
       "addon_item_selection_max", "addon_price", "addon_id",
       "addon_group_id", "addon_group_name" >>

CanonicalFields == { CanonicalOrder[j] : j \in 1..Len(CanonicalOrder) }

\* C11: every row handed to the sink has exactly the 27 canonical fields in
\* the canonical order, whichever case produced it: no field missing, none extra.
C11_CanonicalColumns ==
    /\ \A i \in 1..Len(rows) : DOMAIN rows[i] = CanonicalFields
    /\ pc = "done" =>
          /\ Len(CanonicalOrder) = 27
          /\ df.columns = CanonicalOrder
          /\ Len(df.values) = Len(rows)
          /\ \A i \in 1..Len(rows) :
                /\ Len(df.values[i]) = 27
                /\ \A j \in 1..27 :
                      /\ df.values[i][j] = rows[i][CanonicalOrder[j]]
                      /\ df.values[i][j] # NaN

\* a frame holding a row of each of the cases B and D
C11_Witness ==
    /\ pc = "done"
    /\ Len(rows) >= 5
    /\ df.values[1][24] = "20"
    /\ df.values[1][25] = "A1"
    /\ df.values[Len(rows)][18] = "Large"
    /\ df.values[Len(rows)][27] = None

\* the rows of item k that belong to its addon ref i
RefRowPlaces(item, i) ==
    { BlockStart(item, v, i) + j :
        v \in 1..Max1(Len(VariationsOf(item))),
        j \in 0..(Max1(GroupSize(RefsOf(item)[i])) - 1) }

\* C12: the flattener fills in no default: instock is the item's instock, the
\* selection bounds are the addon ref's own, and a field the item or the ref
\* does not carry is null on the row.
C12_NoDefaultFilling ==
    \A k \in Processed :
        /\ \A p \in 1..Len(item_rows[k]) :
              item_rows[k][p]["instock"] = GetOrNone(Items[k], "instock")
        /\ \A i \in 1..Len(RefsOf(Items[k])) : \A p \in RefRowPlaces(Items[k], i) :
              /\ item_rows[k][p]["addon_item_selection_min"] =
                    GetOrNone(RefsOf(Items[k])[i], "addon_item_selection_min")
              /\ item_rows[k][p]["addon_item_selection_max"] =
                    GetOrNone(RefsOf(Items[k])[i], "addon_item_selection_max")

\* C12 as amended: instock and the selection bounds are copied as they are
\* when the item or the addon ref carries them; an item without instock gets
\* "2", an addon ref without bounds gets the minimum "0" and the maximum "2".
C12_CopiesOrDefaults ==
    \A k \in Processed :
        /\ \A p \in 1..Len(item_rows[k]) :
              item_rows[k][p]["instock"] =
                  (IF "instock" \in DOMAIN Items[k] THEN Items[k]["instock"] ELSE "2")
        /\ \A i \in 1..Len(RefsOf(Items[k])) : \A p \in RefRowPlaces(Items[k], i) :
              LET addon_ref == RefsOf(Items[k])[i]
              IN  /\ item_rows[k][p]["addon_item_selection_min"] =
                        (IF "addon_item_selection_min" \in DOMAIN addon_ref
                         THEN addon_ref["addon_item_selection_min"] ELSE "0")
                  /\ item_rows[k][p]["addon_item_selection_max"] =
                        (IF "addon_item_selection_max" \in DOMAIN addon_ref
                         THEN addon_ref["addon_item_selection_max"] ELSE "2")

\* an item without instock with an addon ref, without a maximum, to a group
\* with items and an addon ref, without bounds, to a group without items
C12_Witness ==
    /\ pc = "done"
    /\ \E k \in Processed :
         /\ "instock" \notin DOMAIN Items[k]
         /\ Len(RefsOf(Items[k])) = 2
         /\ "addon_item_selection_max" \notin DOMAIN RefsOf(Items[k])[1]
         /\ GroupSize(RefsOf(Items[k])[1]) = 2
         /\ DOMAIN RefsOf(Items[k])[2] = {"addon_group_id", "addon_item_selection"}
         /\ item_rows[k][1]["instock"] = "2"
         /\ item_rows[k][1]["addon_item_selection_min"] = "1"
         /\ item_rows[k][1]["addon_item_selection_max"] = "2"
         /\ item_rows[k][3]["addon_item_selection_min"] = "0"
         /\ item_rows[k][3]["addon_item_selection_max"] = "2"

\* the last entry of the sequence whose key holds the id
LastWith(entries, key, id) ==
    entries[CHOOSE i \in 1..Len(entries) :
                /\ GetOrNone(entries[i], key) = id
                /\ \A j \in (i + 1)..Len(entries) : GetOrNone(entries[j], key) # id]

Categories == Get(json_data, "categories", <<>>)

AddonGroups == Get(json_data, "addongroups", <<>>)

\* C13: when two categories or two addon groups share an id, every reference
\* to the id resolves to the one that comes later in the catalog; the earlier
\* one is never used and the duplicate is no error.
C13_LastWriteWins ==
    pc # "entry" =>
        /\ \A i \in 1..Len(Categories) :
              category_map[GetOrNone(Categories[i], "categoryid")] =
                  LastWith(Categories, "categoryid",
                           GetOrNone(Categories[i], "categoryid"))
        /\ \A i \in 1..Len(AddonGroups) :
              addon_group_map[GetOrNone(AddonGroups[i], "addongroupid")] =
                  LastWith(AddonGroups, "addongroupid",
                           GetOrNone(AddonGroups[i], "addongroupid"))
        /\ \A k \in Processed :
              /\ CategoryRef(Items[k]) \in DOMAIN category_map =>
                    \A p \in 1..Len(item_rows[k]) :
                        LET cat == LastWith(Categories, "categoryid",
                                            CategoryRef(Items[k]))
                        IN  /\ item_rows[k][p]["category_name"] =
                                  Get(cat, "categoryname", "")
                            /\ item_rows[k][p]["category_rank"] =
                                  GetOrNone(cat, "categoryrank")
                            /\ item_rows[k][p]["category_timings"] =
                                  GetOrNone(cat, "categorytimings")
              /\ \A i \in 1..Len(RefsOf(Items[k])) :
                    Resolves(RefsOf(Items[k])[i]) =>
                        LET grp == LastWith(AddonGroups, "addongroupid",
                                            GetOrNone(RefsOf(Items[k])[i],
                                                      "addon_group_id"))
                        IN  /\ GroupSize(RefsOf(Items[k])[i]) =
                                  Len(Get(grp, "addongroupitems", <<>>))
                            /\ \A p \in RefRowPlaces(Items[k], i) :
                                  item_rows[k][p]["addon_group_name"] =
                                      Get(grp, "addongroup_name", "")

\* two categories "C1" and two groups "G1": the rows carry the later
\* category "Pasta" and the later group "Toppings" with its two items
C13_Witness ==
    /\ pc = "done"
    /\ Len(Categories) = 2
    /\ GetOrNone(Categories[1], "categoryid") = "C1"
    /\ GetOrNone(Categories[2], "categoryid") = "C1"
    /\ Len(AddonGroups) = 2
    /\ GetOrNone(AddonGroups[1], "addongroupid") = "G1"
    /\ GetOrNone(AddonGroups[2], "addongroupid") = "G1"
    /\ \E k \in Processed :
         /\ Len(item_rows[k]) = 2
         /\ item_rows[k][1]["category_name"] = "Pasta"
         /\ item_rows[k][1]["category_timings"] = None
         /\ item_rows[k][1]["addon_group_name"] = "Toppings"
         /\ item_rows[k][2]["addon_id"] = "A2"

\* C14: every row of a run carries the same catalog-wide context: the
\* restaurant's name and the id and display name of the first area, both
\* null when there is no area; later areas influence no row.
C14_CatalogContext ==
    \A p \in 1..Len(rows) :
        LET restaurant == Get(json_data, "restaurant", EmptyDict)
            areas      == Get(json_data, "areas", <<>>)
        IN  /\ rows[p]["restaurant_name"] = rows[1]["restaurant_name"]
            /\ "restaurantname" \in DOMAIN restaurant =>
                  rows[p]["restaurant_name"] = restaurant["restaurantname"]
            /\ rows[p]["area_id"] =
                  (IF areas = <<>> THEN None ELSE GetOrNone(areas[1], "areaid"))
            /\ rows[p]["area_display_name"] =
                  (IF areas = <<>> THEN None ELSE GetOrNone(areas[1], "displayname"))

\* two areas and several rows of two items: all rows carry the first area
C14_Witness ==
    /\ pc = "done"
    /\ Len(Get(json_data, "areas", <<>>)) = 2
    /\ Len(Items) = 2
    /\ Len(rows) >= 5
    /\ rows[1]["area_id"] = "AR2"
    /\ rows[Len(rows)]["area_display_name"] = "Patio"
    /\ rows[Len(rows)]["restaurant_name"] = "Test"

\* C15: all rows of one item agree on the 15 restaurant, area, category and
\* item fields, which hold the values of the item and of its resolved
\* category on every row, whatever the variation and addon fields hold.
C15_ItemContext ==
    \A k \in Processed : \A p \in 1..Len(item_rows[k]) :
        LET row  == item_rows[k][p]
            item == Items[k]
        IN  /\ \A j \in 1..15 :
                  row[CanonicalOrder[j]] = item_rows[k][1][CanonicalOrder[j]]
            /\ row["restaurant_name"] = restaurant_name
            /\ row["area_id"] = area_id
            /\ row["area_display_name"] = area_display_name
            /\ row["category_id"] = CategoryRef(item)
            /\ row["item_id"] = GetOrNone(item, "itemid")
            /\ "itemname" \in DOMAIN item => row["item_name"] = item["itemname"]
            /\ "itemdescription" \in DOMAIN item =>
                  row["item_description"] = item["itemdescription"]
            /\ row["price"] = GetOrNone(item, "price")
            /\ row["rank"] = GetOrNone(item, "itemrank")
            /\ row["image_url"] = GetOrNone(item, "item_image_url")
            /\ "instock" \in DOMAIN item => row["instock"] = item["instock"]
            /\ CategoryRef(item) \in DOMAIN category_map =>
                  LET cat == category_map[CategoryRef(item)]
                  IN  /\ "categoryname" \in DOMAIN cat =>
                            row["category_name"] = cat["categoryname"]
                      /\ row["category_image_url"] = GetOrNone(cat, "category_image_url")
                      /\ row["category_timings"] = GetOrNone(cat, "categorytimings")
                      /\ row["category_rank"] = GetOrNone(cat, "categoryrank")

\* the item "Margherita" of the category "C1" with two variations and no
\* addon ref: the second row carries the item and its category as the first
C15_Witness ==
    /\ pc = "done"
    /\ \E k \in Processed :
         /\ Len(VariationsOf(Items[k])) = 2
         /\ ~Truthy(RefsOf(Items[k]))
         /\ item_rows[k][2]["item_name"] = "Margherita"
         /\ item_rows[k][2]["price"] = "200"
         /\ item_rows[k][2]["category_name"] = "Pasta"
         /\ item_rows[k][2]["variation_name"] = "Large"
         /\ item_rows[k][2]["addon_name"] = None

AddonFieldNames ==
    { "addon_name", "addon_item_selection", "addon_item_selection_min",
      "addon_item_selection_max", "addon_price", "addon_id", "addon_group_id",
      "addon_group_name" }

VariationFieldNames ==
    { "variation_item_id", "variation_id", "variation_name", "variation_price" }

\* C16: every row of an item without addon refs has its eight addon fields
\* null; every row of an item without variations has its four variation
\* fields null; an item with variations and no addon refs has the i-th
\* variation's id, name and price on its i-th row.
C16_NullScopes ==
    \A k \in Processed :
        /\ ~Truthy(RefsOf(Items[k])) =>
              \A p \in 1..Len(item_rows[k]) : \A f \in AddonFieldNames :
                  item_rows[k][p][f] = None
        /\ ~Truthy(VariationsOf(Items[k])) =>
              \A p \in 1..Len(item_rows[k]) : \A f \in VariationFieldNames :
                  item_rows[k][p][f] = None
        /\ (Truthy(VariationsOf(Items[k])) /\ ~Truthy(RefsOf(Items[k]))) =>
              /\ Len(item_rows[k]) = Len(VariationsOf(Items[k]))
              /\ \A i \in 1..Len(VariationsOf(Items[k])) :
                    CarriesVariation(item_rows[k][i], VariationsOf(Items[k])[i])

\* an item without variations whose addon ref resolves to a group with items
C16_Witness ==
    /\ pc = "done"
    /\ \E k \in Processed :
         /\ ~Truthy(VariationsOf(Items[k]))
         /\ Len(RefsOf(Items[k])) = 1
         /\ Len(item_rows[k]) = 2
         /\ item_rows[k][2]["addon_name"] = "Olives"
         /\ item_rows[k][2]["variation_name"] = None
         /\ item_rows[k][2]["variation_price"] = None

----------------------------------------------------------------------------
(* Frame. *)

\* the rows are distinct objects, and each reads through its address as the
\* row that was appended
NoSharedRows ==
    /\ Len(row_refs) = Len(rows)
    /\ \A i, j \in 1..Len(row_refs) : i # j => row_refs[i] # row_refs[j]
    /\ \A i \in 1..Len(row_refs) : heap[row_refs[i]] = rows[i]

\* C18: building the lookups and flattening leave the catalog as it was, and
\* no two output rows share mutable state: every row is an object of its
\* own, which a write to another row or to base_data does not change.
C18_Frame ==
    [][ /\ json_data' = json_data
        /\ NoSharedRows' ]_vars

\* two items and at least six rows, each its own object
C18_Witness ==
    /\ pc = "done"
    /\ Len(Items) = 2
    /\ Len(row_refs) >= 6
    /\ Cardinality({ row_refs[i] : i \in 1..Len(row_refs) }) = Len(rows)
    /\ heap[row_refs[2]]["addon_name"] = "Olives"
    /\ heap[row_refs[1]]["addon_name"] = "Cheese"

----------------------------------------------------------------------------
(* The OCR batch. *)

\* the ways of ending that are a failure of the extraction
FailingWays == {"returncode_nonzero", "TimeoutExpired", "OSError"}

\* the extraction of future i went through: tesseract exited with 0 and,
\* where the text is read back, the output file could be read
WentThrough(i) ==
    /\ futures[i].way = "returncode_zero"
    /\ futures[i].read # "unreadable"

\* C19: whatever the order in which the workers finish, the images are
\* submitted once each and in order, as_completed hands every future over
\* at most once, the two counters count the futures handed over (the
\* succeeded ones and the failed ones), a non-zero exit, a timeout or an
\* exception gives a failed result, and on return every image has been
\* counted once: successful_files + failed_files is the number of images,
\* and every extraction that went through is among the successful ones.
C19_CountedOnce ==
    /\ Len(futures) <= Len(image_files)
    /\ \A i \in 1..Len(futures) : futures[i].image_path = image_files[i]
    /\ ocr_pc \in {"collect", "returned"} => Len(futures) = Len(image_files)
    /\ Cardinality(Yielded) = Len(yielded)
    /\ Yielded \subseteq Finished
    /\ successful_files
         = Cardinality({ i \in Yielded : futures[i].result.success })
    /\ failed_files
         = Cardinality({ i \in Yielded : ~futures[i].result.success })
    /\ \A i \in Finished :
         futures[i].way \in FailingWays => ~futures[i].result.success
    /\ ocr_pc = "returned" =>
         /\ Yielded = 1..Len(image_files)
         /\ successful_files + failed_files = Len(image_files)
         /\ successful_files
              = Cardinality({ i \in 1..Len(image_files) : WentThrough(i) })

\* three images on two workers, handed over out of submission order: one
\* timed out, one exited non-zero, one went through
C19_Witness ==
    /\ ocr_pc = "returned"
    /\ Len(image_files) = 3
    /\ max_workers = 2
    /\ yielded[1] = 3
    /\ futures[1].way = "TimeoutExpired"
    /\ futures[2].way = "returncode_nonzero"
    /\ WentThrough(3)
    /\ successful_files = 1
    /\ failed_files = 2

\* C20: the batch returns, whatever the number of images and the size of the
\* pool, and an extraction that timed out holds the failed result of its own
\* file, the other futures holding the result of their own extraction.
C20_Terminates ==
    /\ <>(ocr_pc = "returned")
    /\ [](\A i \in Finished :
            futures[i].way = "TimeoutExpired" =>
              /\ futures[i].result.filename = image_files[i]
              /\ ~futures[i].result.raised
              /\ ~futures[i].result.success
              /\ futures[i].result.text = None
              /\ \A j \in Finished \ {i} :
                   /\ futures[j].result.filename = image_files[j]
                   /\ futures[j].result.success = WentThrough(j))

\* one worker, the first image hangs until its timeout, the two behind it
\* are extracted and the batch has returned
C20_Witness ==
    /\ ocr_pc = "returned"
    /\ max_workers = 1
    /\ Len(image_files) = 3
    /\ futures[1].way = "TimeoutExpired"
    /\ WentThrough(2)
    /\ WentThrough(3)
    /\ successful_files = 2
    /\ failed_files = 1

\* C28: run_tesseract_optimized called without an output path has removed
\* the temporary directory it created on every path on which it returns.
C28_NoTempDirLeft ==
    \A i \in Finished :
        output_path = None => futures[i].result.temp_dir = "removed"

----------------------------------------------------------------------------
(* The convert run. *)

\* the OCR results the loop has taken up and is done with
Counted(how) == { k \in 1..Len(conv_log) : conv_log[k].counted = how }

\* C21: the loop takes up every OCR result once, in order, whatever happened
\* to the results before it; a result whose inference failed or raised is
\* counted as failed once and its export is never called; a result whose
\* export raised is counted as failed once; the two counters count the
\* results done with, and at the end successful_conversions +
\* failed_conversions = total_files.
C21_EachResultOnce ==
    /\ Len(conv_log) <= total_files
    /\ \A k \in 1..Len(conv_log) :
         /\ conv_log[k].filename = ocr_results[k][1]
         /\ conv_log[k].inference \in {"failure", "raised"} =>
              /\ conv_log[k].counted = "failed"
              /\ conv_log[k].export = "not_called"
         /\ conv_log[k].export = "raised" => conv_log[k].counted = "failed"
    /\ successful_conversions = Cardinality(Counted("successful"))
    /\ failed_conversions = Cardinality(Counted("failed"))
    /\ conv_pc = "done" =>
         /\ Len(conv_log) = total_files
         /\ Counted("none") = {}
         /\ successful_conversions + failed_conversions = total_files

\* two results: the inference of the first raised, the second was exported
C21_Witness ==
    /\ conv_pc = "done"
    /\ total_files = 2
    /\ conv_log[1].inference = "raised"
    /\ conv_log[2].export = "returned"
    /\ successful_conversions = 1
    /\ failed_conversions = 1

\* C22: at the end of a convert run every image found in the directory is in
\* the counts of the summary: the conversions counted as successful and as
\* failed add up to the number of images, whether the extraction of an
\* image failed, gave no text or gave blanks only.
C22_EveryImageCounted ==
    conv_pc = "done" =>
        /\ total_files = Len(image_files)
        /\ successful_conversions + failed_conversions = Len(image_files)

\* C23: when writing the workbook fails, json_to_excel returns False without
\* raising, export_menu_to_excel raises, no JSON file and no workbook is
\* written for that result, the loop counts it as failed, and the loop goes
\* on to the results behind it.
C23_SinkFailureContained ==
    /\ ~JsonToExcel("fails").raised
    /\ ~JsonToExcel("fails").returned
    /\ \A k \in 1..Len(conv_log) :
         conv_log[k].excel_sink = "fails" =>
           /\ conv_log[k].export = "raised"
           /\ ~conv_log[k].json_file
           /\ ~conv_log[k].excel_file
           /\ conv_log[k].counted = "failed"
           /\ (conv_pc \in {"loop", "done"} \/ k < Len(conv_log))
    /\ conv_pc = "done" => Len(conv_log) = total_files

\* the workbook of the first result failed, the second result was exported
\* with its JSON file
C23_Witness ==
    /\ conv_pc = "done"
    /\ export_json
    /\ total_files = 2
    /\ conv_log[1].excel_sink = "fails"
    /\ conv_log[1].counted = "failed"
    /\ conv_log[2].excel_file
    /\ conv_log[2].json_file
    /\ conv_log[2].counted = "successful"

\* C24: with the Excel export switched off and the JSON export on, no
\* workbook is written for any result, and a failure of the workbook writer
\* does not make a result count as failed.
C24_NoExcelWhenDisabled ==
    (~export_excel /\ export_json) =>
        \A k \in 1..Len(conv_log) :
            /\ ~conv_log[k].excel_file
            /\ conv_log[k].excel_sink = "fails" =>
                   conv_log[k].counted # "failed"

\* C26: no inference call starts before process_images_parallel has returned
\* with every OCR job finished, and the results are processed one at a time:
\* every result before the last one taken up is done with, inference and
\* export, and a call is in flight only for the last one.
C26_StagesOrdered ==
    /\ conv_log # <<>> =>
         /\ ocr_pc = "returned"
         /\ Finished = 1..Len(image_files)
         /\ Running = {}
         /\ Pending = {}
    /\ \A k \in 1..Len(conv_log) :
         LET in_flight == \/ conv_log[k].inference = "running"
                          \/ conv_log[k].export = "running"
         IN  /\ in_flight => k = Len(conv_log)
             /\ in_flight <=> conv_log[k].counted = "none"
             /\ k < Len(conv_log) => conv_log[k].counted # "none"
    /\ conv_pc \in {"infer", "export"} <=>
         (conv_log # <<>> /\ Current.counted = "none")

\* the inference of the second result is in flight after the first result
\* was inferred and exported, both images extracted by the default pool
C26_Witness ==
    /\ conv_pc = "infer"
    /\ max_workers > 1
    /\ Len(conv_log) = 2
    /\ conv_log[1].inference = "data"
    /\ conv_log[1].export = "returned"
    /\ conv_log[2].inference = "running"

----------------------------------------------------------------------------
(* The inference adapter. *)

\* the call has returned
LlmReturned == llm_pc \in {"returned", "revalidated"}

\* the catalog the call returned
Catalog == llm_return.data[1]

\* the JSON object of the response (the text was an object, fenced or not)
ResponseObject == JsonLoads(CleanResponseText(response.text)).value

\* the fields of a variation and of an addon ref that the schema of the
\* prompt gives with a default (llm_converter.py 134-150)
DocumentedVariationFields ==
    {"variationitemid", "variationid", "itemid", "variationrank"}

DocumentedAddonRefFields ==
    {"addon_group_id", "addon_item_selection", "addon_item_selection_min",
     "addon_item_selection_max"}

\* every entry of a list holds the fields
AllHold(entries, fields) ==
    \A i \in 1..Len(entries) : fields \subseteq DOMAIN entries[i]

\* C25: the catalog _validate_and_enhance_json hands on has the six
\* top-level keys, and every area, category, item, variation, addon ref,
\* addon group and addon item holds every field the schema gives a default
\* for.
C25_EveryFieldPresent ==
    (LlmReturned /\ llm_return.success) =>
        /\ {"restaurant", "areas", "categories", "items", "addongroups",
            "audit_log"} \subseteq DOMAIN Catalog
        /\ DOMAIN RestaurantDefaults \subseteq DOMAIN Catalog["restaurant"]
        /\ AllHold(Catalog["areas"], DOMAIN AreaDefaults)
        /\ AllHold(Catalog["categories"], DOMAIN CategoryDefaults)
        /\ AllHold(Catalog["items"], DOMAIN ItemDefaults)
        /\ \A i \in 1..Len(Catalog["items"]) :
             /\ AllHold(Catalog["items"][i]["variation"],
                        DocumentedVariationFields)
             /\ AllHold(Catalog["items"][i]["addon"],
                        DocumentedAddonRefFields)
        /\ AllHold(Catalog["addongroups"], DOMAIN GroupDefaults)
        /\ \A i \in 1..Len(Catalog["addongroups"]) :
             AllHold(Catalog["addongroups"][i]["addongroupitems"],
                     DOMAIN AddonItemDefaults)

\* the responses that are no JSON object
NoObject ==
    \/ response.kind \in {"raises", "empty"}
    \/ JsonLoads(CleanResponseText(response.text)).raised
    \/ JsonLoads(CleanResponseText(response.text)).type # "object"

\* C29: text_to_json_with_gemini does not raise and returns (True, catalog,
\* None) or (False, None, message); without a model or without text it
\* returns the failure without a call of the model, and a response that is
\* empty, no JSON or no JSON object gives the failure.
C29_WellFormedTriple ==
    LlmReturned =>
        /\ ~llm_return.raised
        /\ llm_return.success =>
             /\ Len(llm_return.data) = 1
             /\ DOMAIN Catalog # {}
             /\ llm_return.error = None
        /\ ~llm_return.success =>
             /\ llm_return.data = <<>>
             /\ llm_return.error # None
        /\ (~llm_model \/ raw_text \in {"", "  "}) =>
             /\ ~llm_return.success
             /\ model_calls = 0
        /\ (model_calls > 0 /\ NoObject) => ~llm_return.success
        /\ model_calls <= 1

\* the model answered with a JSON array: the failure triple
C29_Witness ==
    /\ llm_pc = "returned"
    /\ model_calls = 1
    /\ response.kind = "text"
    /\ response.text[1].type = "array"
    /\ ~llm_return.success
    /\ llm_return.error = "Gemini API error"

\* every key of every entry of the list before is in the entry after, with
\* its value
EntriesKept(before, after) ==
    /\ Len(after) = Len(before)
    /\ \A i \in 1..Len(before) : \A k \in DOMAIN before[i] :
         /\ k \in DOMAIN after[i]
         /\ k # "addongroupitems" => after[i][k] = before[i][k]

\* everything the object before carries is in the catalog after, with its
\* value, but for restaurant.source_image when a path is given
Kept(before, after, path) ==
    /\ \A section \in DOMAIN before \cap {"areas", "categories", "items"} :
         EntriesKept(before[section], after[section])
    /\ "audit_log" \in DOMAIN before =>
         after["audit_log"] = before["audit_log"]
    /\ "restaurant" \in DOMAIN before =>
         \A k \in DOMAIN before["restaurant"] :
            IF k = "source_image" /\ path # None
            THEN after["restaurant"][k] = path
            ELSE after["restaurant"][k] = before["restaurant"][k]
    /\ "addongroups" \in DOMAIN before =>
         /\ EntriesKept(before["addongroups"], after["addongroups"])
         /\ \A i \in 1..Len(before["addongroups"]) :
              "addongroupitems" \in DOMAIN before["addongroups"][i] =>
                  EntriesKept(before["addongroups"][i]["addongroupitems"],
                              after["addongroups"][i]["addongroupitems"])

\* C30: _validate_and_enhance_json only adds: applied to its own result it
\* gives that result, and every value of the response is in the result as it
\* was, but for restaurant.source_image, which is the source image path when
\* one is given.
C30_OnlyAdds ==
    llm_pc = "revalidated" =>
        /\ revalidated = Catalog
        /\ Kept(ResponseObject, Catalog, source_image_path)
        /\ Kept(Catalog, revalidated, source_image_path)

\* a response with a restaurant that names its image, an item with instock
\* "0" and a group with max_qty "5": all kept but the image, which is the
\* path given
C30_Witness ==
    /\ llm_pc = "revalidated"
    /\ source_image_path = "menu.png"
    /\ "restaurant" \in DOMAIN ResponseObject
    /\ "source_image" \in DOMAIN ResponseObject["restaurant"]
    /\ ResponseObject["restaurant"]["source_image"] = "old.png"
    /\ Catalog["restaurant"]["source_image"] = "menu.png"
    /\ Len(Catalog["items"]) = 1
    /\ Catalog["items"][1]["instock"] = "0"
    /\ Len(Catalog["addongroups"]) = 1
    /\ Catalog["addongroups"][1]["max_qty"] = "5"
    /\ Catalog["addongroups"][1]["addongroupitems"][1]["status"] = "0"

----------------------------------------------------------------------------
(* The two flatteners. *)

RECURSIVE TotalRows(_, _)
TotalRows(per_item, k) ==
    IF k = 0 THEN 0 ELSE TotalRows(per_item, k - 1) + Len(per_item[k])

\* C27: for every catalog create_complete_menu_sheet gives, item by item,
\* as many rows as the single-sheet flattening of the exporter, and as many
\* rows in all, a catalog without items included.
C27_SameRowCounts ==
    pc = "done" =>
        LET sheet == CreateCompleteMenuSheet(json_data)
        IN  /\ ~sheet.raised
            /\ Len(sheet.item_rows) = Len(item_rows)
            /\ \A k \in 1..Len(item_rows) :
                 Len(sheet.item_rows[k]) = Len(item_rows[k])
            /\ TotalRows(sheet.item_rows, Len(sheet.item_rows)) = Len(rows)

====
